---- MODULE Spec2Model ----
(***************************************************************************)
(* Verification model of CLIProxyAPI's hot-reload watcher                  *)
(* (package watcher, src/unnamed/part_002).                                *)
(*                                                                         *)
(* Strings are sequences of atoms (one-character TLA+ strings, or an       *)
(* opaque chunk that no string operation of the code looks into).  A Go    *)
(* map is a TLA+ function; a nil pointer/option is the empty sequence.     *)
(* SHA-256 is an injective encoding of its input (no collisions).          *)
(***************************************************************************)
EXTENDS Integers, Sequences, FiniteSets, TLC

(***************************************************************************)
(* Bounds of the model.                                                    *)
(***************************************************************************)
MaxClock == 2
MaxEvents == 2
MaxConfigWrites == 1
MaxAuthChanges == 1
MaxRunningAuthChanges == 2
MaxNow == 6
MaxConfigEvents == 3

MaxLines == 3

MaxReloadWrites == 2

MaxQueueSets == 2

MaxDispatchChanges == 1

(***************************************************************************)
(* String helpers (package strings).                                       *)
(***************************************************************************)
EmptyStr == <<>>

RECURSIVE TrimLeft(_)
TrimLeft(s) ==
    IF s # <<>> /\ Head(s) = " " THEN TrimLeft(Tail(s)) ELSE s

RECURSIVE TrimRight(_)
TrimRight(s) ==
    IF s # <<>> /\ s[Len(s)] = " " THEN TrimRight(SubSeq(s, 1, Len(s) - 1)) ELSE s

TrimSpace(s) == TrimRight(TrimLeft(s))

LowerChar(c) ==
    CASE c = "C" -> "c"
      [] c = "G" -> "g"
      [] c = ".JSON" -> ".json"
      [] c = "SYSTEM" -> "system"
      [] OTHER -> c

ToLower(s) == [i \in 1..Len(s) |-> LowerChar(s[i])]

EqualFold(s, t) == ToLower(s) = ToLower(t)

HasSuffix(s, suffix) ==
    /\ Len(s) >= Len(suffix)
    /\ SubSeq(s, Len(s) - Len(suffix) + 1, Len(s)) = suffix

RECURSIVE Split(_, _)
\* strings.Split(s, sep) for a one-atom separator
Split(s, sep) ==
    IF \A i \in 1..Len(s) : s[i] # sep THEN <<s>>
    ELSE LET i == CHOOSE j \in 1..Len(s) : s[j] = sep /\ \A k \in 1..(j - 1) : s[k] # sep
         IN  <<SubSeq(s, 1, i - 1)>> \o Split(SubSeq(s, i + 1, Len(s)), sep)

RECURSIVE Join(_, _)
Join(parts, sep) ==
    IF parts = <<>> THEN <<>>
    ELSE IF Len(parts) = 1 THEN parts[1]
    ELSE parts[1] \o <<sep>> \o Join(Tail(parts), sep)

\* strings.NewReplacer("/", "_", "\\", "_", " ", "_").Replace
GeminiReplace(s) ==
    [i \in 1..Len(s) |-> IF s[i] \in {"/", "\\", " "} THEN "_" ELSE s[i]]

\* hex.EncodeToString(sha256.Sum256(data)): one opaque atom per distinct input
Sha256Hex(data) == ToString(data)

Range(s) == {s[i] : i \in 1..Len(s)}

MapGet(m, k) == IF k \in DOMAIN m THEN m[k] ELSE EmptyStr

MapPut(m, k, v) == (k :> v) @@ m

(***************************************************************************)
(* stableIDGenerator                                                       *)
(***************************************************************************)
\* counters: key -> uses so far; calls: the history of next() calls
newStableIDGenerator == [counters |-> <<>>, calls |-> <<>>]

RECURSIVE HashInput(_)
\* the bytes written after the kind: a 0 byte and the trimmed part, per part
HashInput(parts) ==
    IF parts = <<>> THEN <<>>
    ELSE <<"\\0">> \o TrimSpace(Head(parts)) \o HashInput(Tail(parts))

\* a generator whose index counts every earlier call, whatever its kind and parts
IdGenCountingAll(gen, kind, parts) ==
    LET digest == Sha256Hex(kind \o HashInput(parts))
        short  == <<digest>>
        key    == kind \o <<":">> \o short
        index  == Len(gen.calls)
        token  == IF index > 0 THEN short \o <<"-", ToString(index)>> ELSE short
        id     == kind \o <<":">> \o token
    IN  [id    |-> id,
         token |-> token,
         gen   |-> [counters |-> MapPut(gen.counters, key, index + 1),
                    calls    |-> Append(gen.calls,
                                    [kind |-> kind, parts |-> parts, id |-> id])]]

\* stableIDGenerator.next: [id, token, gen]
IdGenNext(gen, kind, parts) ==
    LET digest == Sha256Hex(kind \o HashInput(parts))
        short  == <<digest>>
        key    == kind \o <<":">> \o short
        index  == IF key \in DOMAIN gen.counters THEN gen.counters[key] ELSE 0
        token  == IF index > 0 THEN short \o <<"-", ToString(index)>> ELSE short
        id     == kind \o <<":">> \o token
    IN  [id    |-> id,
         token |-> token,
         gen   |-> [counters |-> MapPut(gen.counters, key, index + 1),
                    calls    |-> Append(gen.calls,
                                    [kind |-> kind, parts |-> parts, id |-> id])]]

(***************************************************************************)
(* coreauth.Auth as the watcher builds it.  Time values are clock ticks,   *)
(* 0 is Go's zero time.Time; a nil Runtime/Metadata is the empty sequence. *)
(***************************************************************************)
NewAuth(id, provider, label, proxyURL, attrs, metadata, now) ==
    [ID                 |-> id,
     Provider           |-> provider,
     Label              |-> label,
     Status             |-> "active",
     Disabled           |-> FALSE,
     ProxyURL           |-> proxyURL,
     Attributes         |-> attrs,
     Metadata           |-> metadata,
     CreatedAt          |-> now,
     UpdatedAt          |-> now,
     LastRefreshedAt    |-> 0,
     NextRefreshAfter   |-> 0,
     Runtime            |-> <<>>,
     QuotaNextRecoverAt |-> 0]

RECURSIVE addConfigHeadersToAttrs(_, _, _)
\* `order` is the order in which Go's range statement visits the map keys
addConfigHeadersToAttrs(headers, attrs, order) ==
    IF order = <<>> THEN attrs
    ELSE LET hk == Head(order)
         IN  IF hk \notin DOMAIN headers
             THEN addConfigHeadersToAttrs(headers, attrs, Tail(order))
             ELSE LET key == TrimSpace(hk)
                      val == TrimSpace(headers[hk])
                  IN  IF key = <<>> \/ val = <<>>
                      THEN addConfigHeadersToAttrs(headers, attrs, Tail(order))
                      ELSE addConfigHeadersToAttrs(headers,
                               MapPut(attrs, <<"header:">> \o key, val), Tail(order))

\* computeClaudeModelsHash / computeOpenAICompatModelsHash
computeModelsHash(models) ==
    IF Len(models) = 0 THEN EmptyStr ELSE <<Sha256Hex(<<"json", models>>)>>

WithIf(attrs, cond, k, v) == IF cond THEN MapPut(attrs, k, v) ELSE attrs

Emit(st, a, gen) == [out |-> Append(st.out, a), gen |-> gen]

RECURSIVE SnapGeminiKeys(_, _, _, _)
SnapGeminiKeys(entries, st, now, order) ==
    IF entries = <<>> THEN st
    ELSE LET entry == Head(entries)
             key   == TrimSpace(entry.APIKey)
         IN  IF key = <<>> THEN SnapGeminiKeys(Tail(entries), st, now, order)
             ELSE LET base     == TrimSpace(entry.BaseURL)
                      proxyURL == TrimSpace(entry.ProxyURL)
                      g        == IdGenNext(st.gen, <<"gemini:apikey">>, <<key, base>>)
                      attrs0   == (<<"source">> :> (<<"config:gemini[">> \o g.token \o <<"]">>))
                                  @@ (<<"api_key">> :> key)
                      attrs1   == WithIf(attrs0, base # <<>>, <<"base_url">>, base)
                      attrs    == addConfigHeadersToAttrs(entry.Headers, attrs1, order)
                      a        == NewAuth(g.id, <<"gemini">>, <<"gemini-apikey">>,
                                          proxyURL, attrs, <<>>, now)
                  IN  SnapGeminiKeys(Tail(entries), Emit(st, a, g.gen), now, order)

RECURSIVE SnapClaudeKeys(_, _, _, _)
SnapClaudeKeys(entries, st, now, order) ==
    IF entries = <<>> THEN st
    ELSE LET ck  == Head(entries)
             key == TrimSpace(ck.APIKey)
         IN  IF key = <<>> THEN SnapClaudeKeys(Tail(entries), st, now, order)
             ELSE LET base     == TrimSpace(ck.BaseURL)
                      g        == IdGenNext(st.gen, <<"claude:apikey">>, <<key, base>>)
                      attrs0   == (<<"source">> :> (<<"config:claude[">> \o g.token \o <<"]">>))
                                  @@ (<<"api_key">> :> key)
                      attrs1   == WithIf(attrs0, base # <<>>, <<"base_url">>, base)
                      hash     == computeModelsHash(ck.Models)
                      attrs2   == WithIf(attrs1, hash # <<>>, <<"models_hash">>, hash)
                      attrs    == addConfigHeadersToAttrs(ck.Headers, attrs2, order)
                      proxyURL == TrimSpace(ck.ProxyURL)
                      a        == NewAuth(g.id, <<"claude">>, <<"claude-apikey">>,
                                          proxyURL, attrs, <<>>, now)
                  IN  SnapClaudeKeys(Tail(entries), Emit(st, a, g.gen), now, order)

RECURSIVE SnapCrossProviderFirstOnly(_, _, _, _, _, _, _)
\* a loop over ck.Models that ends after the first credential
SnapCrossProviderFirstOnly(ck, key, providerType, models, st, now, order) ==
    IF models = <<>> THEN st
    ELSE LET model == Head(models)
             alias == TrimSpace(model.Alias)
         IN  IF alias = <<>>
             THEN SnapCrossProviderFirstOnly(ck, key, providerType, Tail(models), st,
                                             now, order)
             ELSE LET idKind   == <<"cross-provider:">> \o providerType \o <<":">> \o alias
                      g        == IdGenNext(st.gen, idKind, <<key, ck.BaseURL, alias>>)
                      attrs0   == (<<"source">> :> (<<"config:codex-cross-provider[">> \o g.token \o <<"]">>))
                                  @@ (<<"api_key">> :> key)
                                  @@ (<<"provider_type">> :> providerType)
                                  @@ (<<"model_alias">> :> alias)
                                  @@ (<<"model_name">> :> TrimSpace(model.Name))
                      attrs1   == WithIf(attrs0, ck.BaseURL # <<>>, <<"base_url">>, ck.BaseURL)
                      attrs    == addConfigHeadersToAttrs(ck.Headers, attrs1, order)
                      a        == NewAuth(g.id, <<"cross-provider-">> \o providerType,
                                          <<"cross-provider-">> \o providerType \o <<":">> \o alias,
                                          TrimSpace(ck.ProxyURL), attrs, <<>>, now)
                  IN  Emit(st, a, g.gen)

RECURSIVE SnapCrossProvider(_, _, _, _, _, _, _)
\* the loop over ck.Models of a codex-api-key entry that declares a provider-type
SnapCrossProvider(ck, key, providerType, models, st, now, order) ==
    IF models = <<>> THEN st
    ELSE LET model == Head(models)
             alias == TrimSpace(model.Alias)
         IN  IF alias = <<>>
             THEN SnapCrossProvider(ck, key, providerType, Tail(models), st, now, order)
             ELSE LET idKind   == <<"cross-provider:">> \o providerType \o <<":">> \o alias
                      g        == IdGenNext(st.gen, idKind, <<key, ck.BaseURL, alias>>)
                      attrs0   == (<<"source">> :> (<<"config:codex-cross-provider[">> \o g.token \o <<"]">>))
                                  @@ (<<"api_key">> :> key)
                                  @@ (<<"provider_type">> :> providerType)
                                  @@ (<<"model_alias">> :> alias)
                                  @@ (<<"model_name">> :> TrimSpace(model.Name))
                      attrs1   == WithIf(attrs0, ck.BaseURL # <<>>, <<"base_url">>, ck.BaseURL)
                      attrs    == addConfigHeadersToAttrs(ck.Headers, attrs1, order)
                      proxyURL == TrimSpace(ck.ProxyURL)
                      a        == NewAuth(g.id, <<"cross-provider-">> \o providerType,
                                          <<"cross-provider-">> \o providerType \o <<":">> \o alias,
                                          proxyURL, attrs, <<>>, now)
                  IN  SnapCrossProvider(ck, key, providerType, Tail(models),
                                        Emit(st, a, g.gen), now, order)

RECURSIVE SnapCodexKeys(_, _, _, _)
SnapCodexKeys(entries, st, now, order) ==
    IF entries = <<>> THEN st
    ELSE LET ck  == Head(entries)
             key == TrimSpace(ck.APIKey)
         IN  IF key = <<>> THEN SnapCodexKeys(Tail(entries), st, now, order)
             ELSE LET providerType == ToLower(TrimSpace(ck.ProviderType))
                  IN  IF providerType # <<>>
                      THEN SnapCodexKeys(Tail(entries),
                               SnapCrossProvider(ck, key, providerType, ck.Models, st, now, order),
                               now, order)
                      ELSE LET g        == IdGenNext(st.gen, <<"codex:apikey">>, <<key, ck.BaseURL>>)
                               attrs0   == (<<"source">> :> (<<"config:codex[">> \o g.token \o <<"]">>))
                                           @@ (<<"api_key">> :> key)
                               attrs1   == WithIf(attrs0, ck.BaseURL # <<>>, <<"base_url">>, ck.BaseURL)
                               attrs    == addConfigHeadersToAttrs(ck.Headers, attrs1, order)
                               proxyURL == TrimSpace(ck.ProxyURL)
                               a        == NewAuth(g.id, <<"codex">>, <<"codex-apikey">>,
                                                   proxyURL, attrs, <<>>, now)
                           IN  SnapCodexKeys(Tail(entries), Emit(st, a, g.gen), now, order)

CompatAttrs(compat, providerName, base, token, order, key) ==
    LET attrs0 == (<<"source">> :> (<<"config:">> \o providerName \o <<"[">> \o token \o <<"]">>))
                  @@ (<<"base_url">> :> base)
                  @@ (<<"compat_name">> :> compat.Name)
                  @@ (<<"provider_key">> :> providerName)
        attrs1 == WithIf(attrs0, key # <<>>, <<"api_key">>, key)
        hash   == computeModelsHash(compat.Models)
        attrs2 == WithIf(attrs1, hash # <<>>, <<"models_hash">>, hash)
    IN  addConfigHeadersToAttrs(compat.Headers, attrs2, order)

RECURSIVE SnapCompatEntries(_, _, _, _, _, _, _)
\* the APIKeyEntries loop (an entry with an empty key still yields a credential)
SnapCompatEntries(compat, providerName, base, entries, st, now, order) ==
    IF entries = <<>> THEN st
    ELSE LET entry    == Head(entries)
             key      == TrimSpace(entry.APIKey)
             proxyURL == TrimSpace(entry.ProxyURL)
             idKind   == <<"openai-compatibility:">> \o providerName
             g        == IdGenNext(st.gen, idKind, <<key, base, proxyURL>>)
             attrs    == CompatAttrs(compat, providerName, base, g.token, order, key)
             a        == NewAuth(g.id, providerName, compat.Name, proxyURL, attrs, <<>>, now)
         IN  SnapCompatEntries(compat, providerName, base, Tail(entries),
                 [out |-> Append(st.out, a), gen |-> g.gen,
                  created |-> st.created + 1], now, order)

RECURSIVE SnapCompatLegacy(_, _, _, _, _, _, _)
\* the legacy APIKeys loop
SnapCompatLegacy(compat, providerName, base, keys, st, now, order) ==
    IF keys = <<>> THEN st
    ELSE LET key == TrimSpace(Head(keys))
         IN  IF key = <<>>
             THEN SnapCompatLegacy(compat, providerName, base, Tail(keys), st, now, order)
             ELSE LET idKind == <<"openai-compatibility:">> \o providerName
                      g      == IdGenNext(st.gen, idKind, <<key, base>>)
                      attrs  == CompatAttrs(compat, providerName, base, g.token, order, key)
                      a      == NewAuth(g.id, providerName, compat.Name, <<>>, attrs, <<>>, now)
                  IN  SnapCompatLegacy(compat, providerName, base, Tail(keys),
                          [out |-> Append(st.out, a), gen |-> g.gen,
                           created |-> st.created + 1], now, order)

RECURSIVE SnapOpenAICompat(_, _, _, _)
SnapOpenAICompat(entries, st, now, order) ==
    IF entries = <<>> THEN st
    ELSE LET compat       == Head(entries)
             lowered      == ToLower(TrimSpace(compat.Name))
             providerName == IF lowered = <<>> THEN <<"openai-compatibility">> ELSE lowered
             base         == TrimSpace(compat.BaseURL)
             st0          == [out |-> st.out, gen |-> st.gen, created |-> 0]
             st1          == IF Len(compat.APIKeyEntries) > 0
                             THEN SnapCompatEntries(compat, providerName, base,
                                                    compat.APIKeyEntries, st0, now, order)
                             ELSE SnapCompatLegacy(compat, providerName, base,
                                                   compat.APIKeys, st0, now, order)
             idKind       == <<"openai-compatibility:">> \o providerName
             g            == IdGenNext(st1.gen, idKind, <<base>>)
             attrs        == CompatAttrs(compat, providerName, base, g.token, order, <<>>)
             a            == NewAuth(g.id, providerName, compat.Name, <<>>, attrs, <<>>, now)
             st2          == IF st1.created = 0
                             THEN Emit(st1, a, g.gen)
                             ELSE [out |-> st1.out, gen |-> st1.gen]
         IN  SnapOpenAICompat(Tail(entries), st2, now, order)

(***************************************************************************)
(* Auth files.  A file is [kind, meta]: kind "absent" (no such file),      *)
(* "empty" (zero bytes), "garbage" (bytes that do not unmarshal into a     *)
(* JSON object) or "json" (an object whose string fields are meta).        *)
(***************************************************************************)
AuthDirPath == <<"auths">>

FilePath(name) == AuthDirPath \o <<"/">> \o name

AbsentFile == [kind |-> "absent", meta |-> <<>>]
EmptyFile == [kind |-> "empty", meta |-> <<>>]
GarbageFile == [kind |-> "garbage", meta |-> <<>>]
JsonFile(meta) == [kind |-> "json", meta |-> meta]

Readable(file) == file.kind # "absent"
HasBytes(file) == file.kind \notin {"absent", "empty"}

RECURSIVE DedupTrimmed(_, _)
DedupTrimmed(parts, seen) ==
    IF parts = <<>> THEN <<>>
    ELSE LET id == TrimSpace(Head(parts))
         IN  IF id = <<>> \/ id \in seen THEN DedupTrimmed(Tail(parts), seen)
             ELSE <<id>> \o DedupTrimmed(Tail(parts), seen \cup {id})

splitGeminiProjectIDs(metadata) ==
    LET trimmed == TrimSpace(MapGet(metadata, "project_id"))
    IN  IF trimmed = <<>> THEN <<>> ELSE DedupTrimmed(Split(trimmed, ","), {})

buildGeminiVirtualID(baseID, projectID) ==
    LET trimmed == TrimSpace(projectID)
        project == IF trimmed = <<>> THEN <<"project">> ELSE trimmed
    IN  baseID \o <<"::">> \o GeminiReplace(project)

\* geminicli.NewSharedCredential / NewVirtualCredential: a fresh object per snapshot
NewRuntime(what, now) == <<what, ToString(now)>>

GeminiPrimary(primary, projects, now) ==
    [primary EXCEPT
        !.Disabled = TRUE,
        !.Status = "disabled",
        !.Runtime = NewRuntime("shared", now),
        !.Attributes = (<<"gemini_virtual_primary">> :> <<"true">>)
                       @@ (<<"virtual_children">> :> Join(projects, ","))
                       @@ primary.Attributes]

GeminiVirtual(primary, metadata, projectID, now) ==
    LET source == MapGet(primary.Attributes, <<"source">>)
        authPath == MapGet(primary.Attributes, <<"path">>)
        originalProvider == IF primary.Provider = <<>> THEN <<"gemini-cli">> ELSE primary.Provider
        label == IF primary.Label = <<>> THEN originalProvider ELSE primary.Label
        attrs0 == (<<"runtime_only">> :> <<"true">>)
                  @@ (<<"gemini_virtual_parent">> :> primary.ID)
                  @@ (<<"gemini_virtual_project">> :> projectID)
        attrs1 == WithIf(attrs0, source # <<>>, <<"source">>, source)
        attrs  == WithIf(attrs1, authPath # <<>>, <<"path">>, authPath)
        proxy  == TrimSpace(primary.ProxyURL)
        meta0  == ("email" :> MapGet(metadata, "email"))
                  @@ ("project_id" :> projectID)
                  @@ ("virtual" :> <<"true">>)
                  @@ ("virtual_parent_id" :> primary.ID)
                  @@ ("type" :> MapGet(metadata, "type"))
        meta   == WithIf(meta0, proxy # <<>>, "proxy_url", proxy)
    IN  [NewAuth(buildGeminiVirtualID(primary.ID, projectID), originalProvider,
                 label \o <<" [">> \o projectID \o <<"]">>,
                 primary.ProxyURL, attrs, meta, now)
         EXCEPT !.Runtime = NewRuntime("virtual", now)]

\* synthesizeGeminiVirtualAuths: <<>> or the primary (rewritten) followed by its virtuals
synthesizeGeminiVirtualAuths(primary, metadata, now) ==
    LET projects == splitGeminiProjectIDs(metadata)
    IN  IF Len(projects) <= 1 THEN <<>>
        ELSE <<GeminiPrimary(primary, projects, now)>>
             \o [i \in 1..Len(projects) |->
                    GeminiVirtual(primary, metadata, projects[i], now)]

\* a SnapAuthFile that does not look at the type
SnapAuthFileAnyType(name, file, now) ==
    IF ~HasSuffix(ToLower(name), <<".json">>) THEN <<>>
    ELSE IF ~Readable(file) \/ ~HasBytes(file) THEN <<>>
    ELSE IF file.kind # "json" THEN <<>>
    ELSE LET full == FilePath(name)
         IN  <<NewAuth(name, ToLower(MapGet(file.meta, "type")),
                       MapGet(file.meta, "email"), MapGet(file.meta, "proxy_url"),
                       (<<"source">> :> full) @@ (<<"path">> :> full),
                       file.meta, now)>>

\* the auths one directory entry contributes
SnapAuthFile(name, file, now) ==
    IF ~HasSuffix(ToLower(name), <<".json">>) THEN <<>>
    ELSE IF ~Readable(file) \/ ~HasBytes(file) THEN <<>>
    ELSE IF file.kind # "json" THEN <<>>
    ELSE LET metadata == file.meta
             t        == MapGet(metadata, "type")
         IN  IF t = <<>> THEN <<>>
             ELSE LET lowered  == ToLower(t)
                      provider == IF lowered = <<"gemini">> THEN <<"gemini-cli">> ELSE lowered
                      email    == MapGet(metadata, "email")
                      label    == IF email # <<>> THEN email ELSE provider
                      full     == FilePath(name)
                      a        == NewAuth(name, provider, label, MapGet(metadata, "proxy_url"),
                                          (<<"source">> :> full) @@ (<<"path">> :> full),
                                          metadata, now)
                      virtuals == IF provider = <<"gemini-cli">>
                                  THEN synthesizeGeminiVirtualAuths(a, metadata, now)
                                  ELSE <<>>
                  IN  IF Len(virtuals) > 0 THEN virtuals ELSE <<a>>

RECURSIVE SnapAuthDir(_, _, _)
\* os.ReadDir lists the entries sorted by file name
SnapAuthDir(names, dir, now) ==
    IF names = <<>> THEN <<>>
    ELSE (IF Head(names) \in DOMAIN dir
          THEN SnapAuthFile(Head(names), dir[Head(names)], now)
          ELSE <<>>)
         \o SnapAuthDir(Tail(names), dir, now)

(***************************************************************************)
(* SnapshotCoreAuths.  cfg is <<>> (nil) or <<config>>; dir maps the file  *)
(* names of the auth directory to their files; names lists them sorted.    *)
(***************************************************************************)
SnapConfig(cfg, now, order) ==
    LET st0 == [out |-> <<>>, gen |-> newStableIDGenerator]
    IN  IF cfg = <<>> THEN st0
        ELSE SnapOpenAICompat(cfg[1].OpenAICompatibility,
                 SnapCodexKeys(cfg[1].CodexKey,
                     SnapClaudeKeys(cfg[1].ClaudeKey,
                         SnapGeminiKeys(cfg[1].GeminiKey, st0, now, order),
                         now, order),
                     now, order),
                 now, order)

SnapshotCoreAuths(cfg, names, dir, now, order) ==
    SnapConfig(cfg, now, order).out \o SnapAuthDir(names, dir, now)

(***************************************************************************)
(* Reconciliation: authEqual, prepareAuthUpdatesLocked.                    *)
(* currentAuths is <<>> (nil map) or <<map>>; an update carries its auth   *)
(* as <<auth>> (Add, Modify) or <<>> (Delete).                             *)
(***************************************************************************)
\* a normalizeAuth that leaves Runtime in place
normalizeKeepingRuntime(a) ==
    [a EXCEPT !.CreatedAt = 0,
              !.UpdatedAt = 0,
              !.LastRefreshedAt = 0,
              !.NextRefreshAfter = 0,
              !.QuotaNextRecoverAt = 0]

normalizeAuth(a) ==
    [a EXCEPT !.CreatedAt = 0,
              !.UpdatedAt = 0,
              !.LastRefreshedAt = 0,
              !.NextRefreshAfter = 0,
              !.Runtime = <<>>,
              !.QuotaNextRecoverAt = 0]

\* an authEqual that compares the credentials as they are
authEqualExact(a, b) == a = b

authEqual(a, b) == normalizeAuth(a) = normalizeAuth(b)

AuthUpdate(action, id, auth) == [Action |-> action, ID |-> id, Auth |-> auth]

\* newState of prepareAuthUpdatesLocked: a later auth with the same id replaces an earlier
NewStateOf(auths) ==
    LET ids == {auths[i].ID : i \in 1..Len(auths)} \ {EmptyStr}
        last(id) == CHOOSE i \in 1..Len(auths) :
                        /\ auths[i].ID = id
                        /\ \A j \in (i + 1)..Len(auths) : auths[j].ID # id
    IN  [id \in ids |-> auths[last(id)]]

RECURSIVE SetToSeq(_)
\* one of the orders in which Go's range may visit a map's keys
SetToSeq(S) ==
    IF S = {} THEN <<>>
    ELSE LET x == CHOOSE y \in S : TRUE
         IN  <<x>> \o SetToSeq(S \ {x})

\* a diff that forgets the second loop of prepareAuthUpdatesLocked, the deletions
DiffWithoutDeletes(current, newState) ==
    LET changed == {id \in DOMAIN newState :
                        id \notin DOMAIN current \/ ~authEqual(current[id], newState[id])}
        cs      == SetToSeq(changed)
    IN  [i \in 1..Len(cs) |->
            AuthUpdate(IF cs[i] \in DOMAIN current THEN "modify" ELSE "add",
                       cs[i], <<newState[cs[i]]>>)]

DiffUpdates(current, newState) ==
    LET changed == {id \in DOMAIN newState :
                        id \notin DOMAIN current \/ ~authEqual(current[id], newState[id])}
        gone    == {id \in DOMAIN current : id \notin DOMAIN newState}
        upd(id) == IF id \notin DOMAIN current
                   THEN AuthUpdate("add", id, <<newState[id]>>)
                   ELSE AuthUpdate("modify", id, <<newState[id]>>)
        cs      == SetToSeq(changed)
        gs      == SetToSeq(gone)
    IN  [i \in 1..Len(cs) |-> upd(cs[i])]
        \o [i \in 1..Len(gs) |-> AuthUpdate("delete", gs[i], <<>>)]

\* prepareAuthUpdatesLocked: [current, updates]
prepareAuthUpdatesLocked(current, hasQueue, auths) ==
    LET newState == NewStateOf(auths)
        ids      == SetToSeq(DOMAIN newState)
    IN  IF current = <<>>
        THEN [current |-> <<newState>>,
              updates |-> IF ~hasQueue THEN <<>>
                          ELSE [i \in 1..Len(ids) |->
                                   AuthUpdate("add", ids[i], <<newState[ids[i]]>>)]]
        ELSE IF ~hasQueue
        THEN [current |-> <<newState>>, updates |-> <<>>]
        ELSE [current |-> <<newState>>, updates |-> DiffUpdates(current[1], newState)]

authUpdateKey(update, ts) ==
    IF update.ID # EmptyStr THEN update.ID ELSE <<update.Action, ":", ToString(ts)>>

RECURSIVE EnqueueAlwaysAppending(_, _, _, _)
\* a dispatchAuthUpdates that appends the key without looking at pendingUpdates
EnqueueAlwaysAppending(pending, order, updates, ts) ==
    IF updates = <<>> THEN [pendingUpdates |-> pending, pendingOrder |-> order]
    ELSE LET key == authUpdateKey(Head(updates), ts)
         IN  EnqueueAlwaysAppending(MapPut(pending, key, Head(updates)),
                                    Append(order, key), Tail(updates), ts + 1)

RECURSIVE EnqueueUpdates(_, _, _, _)
\* the loop of dispatchAuthUpdates: [pendingUpdates, pendingOrder]
EnqueueUpdates(pending, order, updates, ts) ==
    IF updates = <<>> THEN [pendingUpdates |-> pending, pendingOrder |-> order]
    ELSE LET key == authUpdateKey(Head(updates), ts)
         IN  EnqueueUpdates(MapPut(pending, key, Head(updates)),
                            IF key \in DOMAIN pending THEN order ELSE Append(order, key),
                            Tail(updates), ts + 1)

\* the batch nextPendingBatch hands out
PendingBatch(pending, order) == [i \in 1..Len(order) |-> pending[order[i]]]

(***************************************************************************)
(* The watcher as a state machine.                                         *)
(***************************************************************************)
VARIABLES
    configFile,       \* content of the config file
    authDir,          \* file name -> content of the auth directory
    events,           \* fsnotify events not yet handled
    configWrites,     \* writes of the config file still to come
    authChanges,      \* changes of the auth directory still to come
    clock,            \* time.Now()
    config,           \* w.config: <<>> (nil) or <<cfg>>
    lastAuthHashes,   \* w.lastAuthHashes: path -> hash
    lastConfigHash,   \* w.lastConfigHash: "" is <<>>
    authQueue,        \* w.authQueue # nil
    currentAuths,     \* w.currentAuths: <<>> (nil) or <<map>>
    pendingUpdates,   \* w.pendingUpdates
    pendingOrder,     \* w.pendingOrder
    timerArmed,       \* w.configReloadTimer is set and has not fired
    started,          \* Start was called
    pc,               \* position of each goroutine
    auths,            \* refreshAuthState's local auths, per goroutine
    updates,          \* refreshAuthState's local updates, per goroutine
    ev,               \* the event handleEvent is working on: <<>> or <<event>>
    tdata,            \* reloadConfigIfChanged's local data: <<>> or <<content>>
    batch,            \* dispatchLoop's batch, the part not yet sent
    delivered,        \* consumer: id -> last update received
    replaced,         \* history: dispatchAuthUpdates overwrote a pending update
    prev,             \* history: currentAuths as the goroutine's prepare found it
    snapA,            \* SnapConfig of a first configuration
    snapB             \* SnapConfig of a second configuration

envVars == <<configFile, authDir, events, configWrites, authChanges, clock>>
watcherVars == <<config, lastAuthHashes, lastConfigHash, authQueue, currentAuths,
                 pendingUpdates, pendingOrder, timerArmed, started>>
procVars == <<pc, auths, updates, ev, tdata>>
dispatchVars == <<batch, delivered, replaced>>
seqVars == <<prev>>
snapVars == <<snapA, snapB>>

\* the debounce timer of the config file, with time in units of 50 ms
VARIABLES
    now,              \* the time
    handled,          \* history: when handleEvent took each config event
    timers,           \* the runtime's timers that have not expired: [id, due]
    timerRef,         \* w.configReloadTimer: <<>> (nil) or <<id>>
    running,          \* timers that expired and whose function has not run yet
    reloads           \* history: the runs of reloadConfigIfChanged: [id, at]

debounceVars == <<now, handled, timers, timerRef, running, reloads>>

\* the cross-provider executor
VARIABLES
    exec,             \* <<>> or <<the call of the executor and its outcome>>
    lifted            \* <<>> or <<a payload and what extractSystemToTopLevel made of it>>

execVars == <<exec, lifted>>

\* one stream of executeStreamWithClaude
VARIABLES
    upstream,         \* the response body: [all, lines, end, open]
    ctxDone,          \* ctx.Err() # nil
    reader,           \* the reader goroutine: [pc, chunks, param, errScan]
    received,         \* the chunks the consumer received from the channel
    outClosed,        \* the output channel is closed
    receiving         \* the consumer still receives from the channel

streamVars == <<upstream, ctxDone, reader, received, outClosed, receiving>>

\* the request converter and its package variables
VARIABLES
    account,          \* the package variable account: "" is <<>>
    session,          \* the package variable session
    user,             \* the package variable user
    conv              \* the calls of the converter: call -> [pc, args, out]

convVars == <<account, session, user, conv>>

\* the Amp module and its fallback wrapper
VARIABLES
    ampCfg,           \* m.cfg: <<>> (nil) or <<cfg>>
    ampProxy,         \* m.proxy # nil
    registered,       \* the routes are registered
    restrict,         \* the management routes carry localhostOnlyMiddleware
    served            \* <<>> or <<the last request since the config was applied, and what became of it>>

ampVars == <<ampCfg, ampProxy, registered, restrict, served>>

\* the dispatch loops, Stop and the receivers of the queues
VARIABLES
    queueRef,         \* w.authQueue: 0 (nil) or the channel
    loop,             \* the dispatchLoop goroutines: [pc, ctx, batch, queue]
    dispatchCancel,   \* w.dispatchCancel: 0 (nil) or the loop it cancels
    queueSets,        \* calls of SetAuthUpdateQueue so far
    stopPc,           \* how far Stop has come
    held,             \* channel -> the credentials its receiver holds
    lastSend          \* history: <<>> or <<the last send of a dispatchLoop>>

loopVars == <<queueRef, loop, dispatchCancel, queueSets, stopPc, held, lastSend>>

\* the groups added after the executor
restVars == <<streamVars, convVars, ampVars, loopVars>>

otherVars == <<debounceVars, execVars, restVars>>

vars == <<envVars, watcherVars, procVars, dispatchVars, seqVars, snapVars, otherVars>>

DebounceInit ==
    /\ now = 0
    /\ handled = <<>>
    /\ timers = {}
    /\ timerRef = <<>>
    /\ running = {}
    /\ reloads = <<>>

ExecInit ==
    /\ exec = <<>>
    /\ lifted = <<>>

\* no stream yet: the reader goroutine is not started
StreamInit ==
    /\ upstream = [all |-> <<>>, lines |-> <<>>, end |-> "eof", open |-> FALSE]
    /\ ctxDone = FALSE
    /\ reader = [pc |-> "idle", chunks |-> <<>>, param |-> 0, errScan |-> FALSE]
    /\ received = <<>>
    /\ outClosed = FALSE
    /\ receiving = TRUE

ConvCalls == {1, 2}

\* the arguments of a call that is not made yet
NoArgs ==
    [model   |-> <<>>,
     request |-> [json |-> FALSE, raw |-> <<>>, instructions |-> <<>>, input |-> <<>>],
     stream  |-> FALSE]

\* the package variables as the program starts, and no call of the converter yet
ConvInit ==
    /\ account = <<>>
    /\ session = <<>>
    /\ user = <<>>
    /\ conv = [c \in ConvCalls |-> [pc |-> "idle", args |-> NoArgs, out |-> <<>>]]

\* amp.New: no config, no proxy, no routes
AmpInit ==
    /\ ampCfg = <<>>
    /\ ampProxy = FALSE
    /\ registered = FALSE
    /\ restrict = FALSE
    /\ served = <<>>

Loops == 1..MaxQueueSets

Queues == 1..MaxQueueSets

NoLoop == [pc |-> "none", ctx |-> FALSE, batch |-> <<>>, queue |-> 0]

LoopInit ==
    /\ queueRef = 0
    /\ loop = [l \in Loops |-> NoLoop]
    /\ dispatchCancel = 0
    /\ queueSets = 0
    /\ stopPc = "none"
    /\ held = [q \in Queues |-> <<>>]
    /\ lastSend = <<>>

RestInit == StreamInit /\ ConvInit /\ AmpInit /\ LoopInit

OtherInit == DebounceInit /\ ExecInit /\ RestInit

Procs == {"start", "events", "timer"}

ConfigPath == <<"config.yaml">>

YamlFile(cfg) == [kind |-> "yaml", cfg |-> cfg]

EmptyMap == <<>>

BaseName(path) == SubSeq(path, Len(AuthDirPath) + 2, Len(path))

HasPrefix(s, prefix) ==
    Len(s) >= Len(prefix) /\ SubSeq(s, 1, Len(prefix)) = prefix

FileAt(dir, path) ==
    IF BaseName(path) \in DOMAIN dir THEN dir[BaseName(path)] ELSE AbsentFile

\* the filepath.Walk of reloadClients: path -> hash of every non-empty *.json file
WalkAuthHashes(dir) ==
    LET names == {n \in DOMAIN dir :
                     HasSuffix(ToLower(n), <<".json">>) /\ HasBytes(dir[n])}
    IN  [path \in {FilePath(n) : n \in names} |-> Sha256Hex(FileAt(dir, path))]

MapRemove(m, k) == [x \in DOMAIN m \ {k} |-> m[x]]

(***************************************************************************)
(* Inputs of the concurrent specification.                                 *)
(***************************************************************************)
GeminiEntry(key, base, proxy) ==
    [APIKey |-> key, BaseURL |-> base, ProxyURL |-> proxy, Headers |-> EmptyMap]

MkConfig(gemini, claude, codex, compat) ==
    [GeminiKey |-> gemini, ClaudeKey |-> claude, CodexKey |-> codex,
     OpenAICompatibility |-> compat]

CfgA == MkConfig(<<GeminiEntry(<<"k1">>, <<>>, <<>>)>>, <<>>, <<>>, <<>>)
CfgB == MkConfig(<<GeminiEntry(<<"k2">>, <<>>, <<>>)>>, <<>>, <<>>, <<>>)

ConfigContents == {YamlFile(CfgA), YamlFile(CfgB), GarbageFile}

NameA == <<"a", ".json">>

NameB == <<"b", ".json">>

AuthNames == {NameA}

\* the names a directory may hold, sorted
AllNames == <<NameA, NameB>>

\* os.ReadDir: the names of the directory, sorted
SortedNames == SelectSeq(AllNames, LAMBDA n : n \in DOMAIN authDir)

MetaA == ("type" :> <<"codex">>) @@ ("email" :> <<"x">>)
MetaB == ("type" :> <<"codex">>) @@ ("email" :> <<"y">>)

AuthContents == {JsonFile(MetaA), JsonFile(MetaB)}

\* the header names of the configurations, in the order range visits them
HeaderOrder == <<<<"X">>, <<"Y">>>>

FsEvent(name, op) == [Name |-> name, Op |-> op]

(***************************************************************************)
(* The service: SetConfig, SetAuthUpdateQueue, Start.                      *)
(***************************************************************************)
\* the service hands over the configuration it loaded from the config file
SetConfig ==
    /\ ~started
    /\ config = <<>>
    /\ configFile.kind = "yaml"
    /\ config' = <<configFile.cfg>>
    /\ UNCHANGED <<envVars, lastAuthHashes, lastConfigHash, authQueue, currentAuths,
                   pendingUpdates, pendingOrder, timerArmed, started,
                   procVars, dispatchVars, seqVars, snapVars, otherVars>>

SetAuthUpdateQueue ==
    /\ ~authQueue
    /\ authQueue' = TRUE
    /\ UNCHANGED <<envVars, config, lastAuthHashes, lastConfigHash, currentAuths,
                   pendingUpdates, pendingOrder, timerArmed, started,
                   procVars, dispatchVars, seqVars, snapVars, otherVars>>

\* Start up to `go w.processEvents(ctx)`
Start ==
    /\ ~started
    /\ started' = TRUE
    /\ pc' = [pc EXCEPT !["start"] = "reload"]
    /\ UNCHANGED <<envVars, config, lastAuthHashes, lastConfigHash, authQueue,
                   currentAuths, pendingUpdates, pendingOrder, timerArmed,
                   auths, updates, ev, tdata, dispatchVars, seqVars, snapVars, otherVars>>

\* reloadClients(true) of Start, up to the call of refreshAuthState
StartReload ==
    /\ pc["start"] = "reload"
    /\ IF config = <<>>
       THEN /\ pc' = [pc EXCEPT !["start"] = "done"]
            /\ UNCHANGED lastAuthHashes
       ELSE /\ lastAuthHashes' = WalkAuthHashes(authDir)
            /\ pc' = [pc EXCEPT !["start"] = "snap"]
    /\ UNCHANGED <<envVars, config, lastConfigHash, authQueue, currentAuths,
                   pendingUpdates, pendingOrder, timerArmed, started,
                   auths, updates, ev, tdata, dispatchVars, seqVars, snapVars, otherVars>>

(***************************************************************************)
(* refreshAuthState, the same three steps in every goroutine that runs it. *)
(***************************************************************************)
\* auths := w.SnapshotCoreAuths()
RefreshSnapshot(p) ==
    /\ pc[p] = "snap"
    /\ auths' = [auths EXCEPT ![p] =
                    SnapshotCoreAuths(config, SortedNames, authDir, clock, HeaderOrder)]
    /\ pc' = [pc EXCEPT ![p] = "prep"]
    /\ UNCHANGED <<envVars, watcherVars, updates, ev, tdata, dispatchVars,
                   seqVars, snapVars, otherVars>>

\* updates := w.prepareAuthUpdatesLocked(auths), under clientsMutex
RefreshPrepare(p) ==
    /\ pc[p] = "prep"
    /\ LET r == prepareAuthUpdatesLocked(currentAuths, authQueue, auths[p])
       IN  /\ currentAuths' = r.current
           /\ updates' = [updates EXCEPT ![p] = r.updates]
    /\ prev' = [prev EXCEPT ![p] = currentAuths]
    /\ pc' = [pc EXCEPT ![p] = "enq"]
    /\ UNCHANGED <<envVars, config, lastAuthHashes, lastConfigHash, authQueue,
                   pendingUpdates, pendingOrder, timerArmed, started,
                   auths, ev, tdata, dispatchVars, snapVars, otherVars>>

\* where the goroutine goes when refreshAuthState returns
AfterRefresh(p) ==
    CASE p = "start"  -> "done"
      [] p = "events" -> "idle"
      [] p = "timer"  -> "final"

\* w.dispatchAuthUpdates(updates), under dispatchMu
RefreshDispatch(p) ==
    /\ pc[p] = "enq"
    /\ IF Len(updates[p]) = 0 \/ ~authQueue
       THEN UNCHANGED <<pendingUpdates, pendingOrder, replaced>>
       ELSE LET r == EnqueueUpdates(pendingUpdates, pendingOrder, updates[p], clock)
            IN  /\ pendingUpdates' = r.pendingUpdates
                /\ pendingOrder' = r.pendingOrder
                /\ replaced' = (replaced \/ \E i \in 1..Len(updates[p]) :
                                   authUpdateKey(updates[p][i], clock + i - 1)
                                       \in DOMAIN pendingUpdates)
    /\ pc' = [pc EXCEPT ![p] = AfterRefresh(p)]
    /\ updates' = [updates EXCEPT ![p] = <<>>]
    /\ auths' = [auths EXCEPT ![p] = <<>>]
    /\ ev' = IF p = "events" THEN <<>> ELSE ev
    /\ prev' = [prev EXCEPT ![p] = <<>>]
    /\ UNCHANGED <<envVars, config, lastAuthHashes, lastConfigHash, authQueue,
                   currentAuths, timerArmed, started, tdata, batch, delivered,
                   snapVars, otherVars>>

(***************************************************************************)
(* processEvents / handleEvent.                                            *)
(***************************************************************************)
isConfigEvent(e) == e.Name = ConfigPath /\ e.Op \in {"write", "create", "rename"}

isAuthJSON(e) ==
    /\ HasPrefix(e.Name, AuthDirPath)
    /\ HasSuffix(e.Name, <<".json">>)
    /\ e.Op \in {"create", "write", "remove", "rename"}

\* authFileUnchanged(path) returns (true, nil)
authFileUnchanged(dir, hashes, path) ==
    LET file == FileAt(dir, path)
    IN  /\ Readable(file)
        /\ HasBytes(file)
        /\ path \in DOMAIN hashes
        /\ hashes[path] = Sha256Hex(file)

\* addOrUpdateClient(path) gets as far as refreshAuthState
addOrUpdateProceeds(dir, hashes, cfg, path) ==
    LET file == FileAt(dir, path)
    IN  /\ Readable(file)
        /\ HasBytes(file)
        /\ cfg # <<>>
        /\ ~(path \in DOMAIN hashes /\ hashes[path] = Sha256Hex(file))

\* the hash check of handleEvent followed by addOrUpdateClient up to refreshAuthState
CheckAndUpdate(path) ==
    IF ~authFileUnchanged(authDir, lastAuthHashes, path)
       /\ addOrUpdateProceeds(authDir, lastAuthHashes, config, path)
    THEN /\ lastAuthHashes' = MapPut(lastAuthHashes, path, Sha256Hex(FileAt(authDir, path)))
         /\ pc' = [pc EXCEPT !["events"] = "snap"]
    ELSE /\ pc' = [pc EXCEPT !["events"] = "idle"]
         /\ UNCHANGED lastAuthHashes

\* the event, with what the watcher held for its path when it was received and
\* whether the path was back after the settle delay
Noted(e) ==
    [Name  |-> e.Name,
     Op    |-> e.Op,
     known |-> e.Name \in DOMAIN lastAuthHashes,
     had   |-> currentAuths # <<>> /\ BaseName(e.Name) \in DOMAIN currentAuths[1],
     back  |-> FALSE]

\* handleEvent from the receive to its return, its sleep or its refreshAuthState
HandleEvent ==
    /\ pc["events"] = "idle"
    /\ events # <<>>
    /\ events' = Tail(events)
    /\ LET e == Head(events)
       IN  IF ~isConfigEvent(e) /\ ~isAuthJSON(e)
           THEN UNCHANGED <<timerArmed, lastAuthHashes, pc, ev>>
           ELSE IF isConfigEvent(e)
           THEN /\ timerArmed' = TRUE
                /\ UNCHANGED <<lastAuthHashes, pc, ev>>
           ELSE IF e.Op \in {"remove", "rename"}
           THEN /\ pc' = [pc EXCEPT !["events"] = "sleep"]
                /\ ev' = <<Noted(e)>>
                /\ UNCHANGED <<timerArmed, lastAuthHashes>>
           ELSE /\ CheckAndUpdate(e.Name)
                /\ ev' = IF pc'["events"] = "snap" THEN <<Noted(e)>> ELSE <<>>
                /\ UNCHANGED timerArmed
    /\ UNCHANGED <<configFile, authDir, configWrites, authChanges, clock, config,
                   lastConfigHash,
                   authQueue, currentAuths, pendingUpdates, pendingOrder, started,
                   auths, updates, tdata, dispatchVars, seqVars, snapVars, otherVars>>

\* handleEvent after time.Sleep(replaceCheckDelay)
AfterSleep ==
    /\ pc["events"] = "sleep"
    /\ LET path == ev[1].Name
       IN  IF Readable(FileAt(authDir, path))
           THEN /\ CheckAndUpdate(path)
                /\ ev' = IF pc'["events"] = "snap"
                         THEN <<[ev[1] EXCEPT !.back = TRUE]>>
                         ELSE <<>>
           ELSE IF path \notin DOMAIN lastAuthHashes
           THEN /\ pc' = [pc EXCEPT !["events"] = "idle"]
                /\ ev' = <<>>
                /\ UNCHANGED lastAuthHashes
           ELSE \* removeClient up to refreshAuthState
                /\ lastAuthHashes' = MapRemove(lastAuthHashes, path)
                /\ pc' = [pc EXCEPT !["events"] = "snap"]
                /\ UNCHANGED ev
    /\ UNCHANGED <<envVars, config, lastConfigHash, authQueue, currentAuths,
                   pendingUpdates, pendingOrder, timerArmed, started,
                   auths, updates, tdata, dispatchVars, seqVars, snapVars, otherVars>>

(***************************************************************************)
(* The debounce timer: reloadConfigIfChanged, reloadConfig.                *)
(***************************************************************************)
\* the timer fires; reloadConfigIfChanged up to the hash gate
TimerFire ==
    /\ timerArmed
    /\ pc["timer"] = "idle"
    /\ timerArmed' = FALSE
    /\ IF ~Readable(configFile) \/ ~HasBytes(configFile)
       THEN UNCHANGED <<pc, tdata>>
       ELSE IF lastConfigHash # EmptyStr /\ lastConfigHash = <<Sha256Hex(configFile)>>
       THEN UNCHANGED <<pc, tdata>>
       ELSE /\ pc' = [pc EXCEPT !["timer"] = "load"]
            /\ tdata' = <<configFile>>
    /\ UNCHANGED <<envVars, config, lastAuthHashes, lastConfigHash, authQueue,
                   currentAuths, pendingUpdates, pendingOrder, started,
                   auths, updates, ev, dispatchVars, seqVars, snapVars, otherVars>>

\* a reloadConfig that goes on to reloadClients when LoadConfig failed
ReloadConfigAnyway ==
    /\ pc["timer"] = "load"
    /\ IF configFile.kind # "yaml"
       THEN /\ pc' = [pc EXCEPT !["timer"] = "snap"]
            /\ UNCHANGED <<config, lastAuthHashes, tdata>>
       ELSE /\ config' = <<configFile.cfg>>
            /\ lastAuthHashes' = IF config = <<>> THEN WalkAuthHashes(authDir)
                                 ELSE lastAuthHashes
            /\ pc' = [pc EXCEPT !["timer"] = "snap"]
            /\ UNCHANGED tdata
    /\ UNCHANGED <<envVars, lastConfigHash, authQueue, currentAuths,
                   pendingUpdates, pendingOrder, timerArmed, started,
                   auths, updates, ev, dispatchVars, seqVars, snapVars, otherVars>>

\* reloadConfig: LoadConfig, then reloadClients(authDirChanged) up to refreshAuthState
ReloadConfig ==
    /\ pc["timer"] = "load"
    /\ IF configFile.kind # "yaml"
       THEN /\ pc' = [pc EXCEPT !["timer"] = "idle"]
            /\ tdata' = <<>>
            /\ UNCHANGED <<config, lastAuthHashes>>
       ELSE /\ config' = <<configFile.cfg>>
            /\ lastAuthHashes' = IF config = <<>> THEN WalkAuthHashes(authDir)
                                 ELSE lastAuthHashes
            /\ pc' = [pc EXCEPT !["timer"] = "snap"]
            /\ UNCHANGED tdata
    /\ UNCHANGED <<envVars, lastConfigHash, authQueue, currentAuths,
                   pendingUpdates, pendingOrder, timerArmed, started,
                   auths, updates, ev, dispatchVars, seqVars, snapVars, otherVars>>

\* reloadConfigIfChanged after reloadConfig returned true
StoreConfigHash ==
    /\ pc["timer"] = "final"
    /\ lastConfigHash' = IF Readable(configFile) /\ HasBytes(configFile)
                         THEN <<Sha256Hex(configFile)>>
                         ELSE <<Sha256Hex(tdata[1])>>
    /\ pc' = [pc EXCEPT !["timer"] = "idle"]
    /\ tdata' = <<>>
    /\ UNCHANGED <<envVars, config, lastAuthHashes, authQueue, currentAuths,
                   pendingUpdates, pendingOrder, timerArmed, started,
                   auths, updates, ev, dispatchVars, seqVars, snapVars, otherVars>>

(***************************************************************************)
(* dispatchLoop and the consumer of the queue.                             *)
(***************************************************************************)
nextPendingBatch ==
    /\ authQueue
    /\ batch = <<>>
    /\ pendingOrder # <<>>
    /\ batch' = PendingBatch(pendingUpdates, pendingOrder)
    /\ pendingUpdates' = EmptyMap
    /\ pendingOrder' = <<>>
    /\ UNCHANGED <<envVars, config, lastAuthHashes, lastConfigHash, authQueue,
                   currentAuths, timerArmed, started, procVars, delivered, replaced,
                   seqVars, snapVars, otherVars>>

\* queue <- update, received by the consumer
SendUpdate ==
    /\ batch # <<>>
    /\ delivered' = MapPut(delivered, Head(batch).ID, Head(batch))
    /\ batch' = Tail(batch)
    /\ UNCHANGED <<envVars, watcherVars, procVars, replaced, seqVars, snapVars, otherVars>>

(***************************************************************************)
(* The environment: the file system under the watches, and time.           *)
(***************************************************************************)
CanChange ==
    /\ started
    /\ Len(events) < MaxEvents

WriteConfig(content) ==
    /\ CanChange
    /\ configWrites > 0
    /\ configFile' = content
    /\ events' = Append(events, FsEvent(ConfigPath, "write"))
    /\ configWrites' = configWrites - 1
    /\ UNCHANGED <<authDir, authChanges, clock, watcherVars, procVars, dispatchVars, seqVars, snapVars, otherVars>>

WriteAuth(name, content) ==
    /\ CanChange
    /\ authChanges > 0
    /\ authDir' = [authDir EXCEPT ![name] = content]
    /\ events' = Append(events, FsEvent(FilePath(name),
                     IF Readable(authDir[name]) THEN "write" ELSE "create"))
    /\ authChanges' = authChanges - 1
    /\ UNCHANGED <<configFile, configWrites, clock, watcherVars, procVars, dispatchVars, seqVars, snapVars, otherVars>>

RemoveAuth(name) ==
    /\ CanChange
    /\ authChanges > 0
    /\ Readable(authDir[name])
    /\ authDir' = [authDir EXCEPT ![name] = AbsentFile]
    /\ events' = Append(events, FsEvent(FilePath(name), "remove"))
    /\ authChanges' = authChanges - 1
    /\ UNCHANGED <<configFile, configWrites, clock, watcherVars, procVars, dispatchVars, seqVars, snapVars, otherVars>>

Tick ==
    /\ clock < MaxClock
    /\ clock' = clock + 1
    /\ UNCHANGED <<configFile, authDir, events, configWrites, authChanges,
                   watcherVars, procVars,
                   dispatchVars, seqVars, snapVars, otherVars>>

Init ==
    /\ configFile = YamlFile(CfgA)
    /\ authDir = [n \in AuthNames |-> JsonFile(MetaA)]
    /\ events = <<>>
    /\ configWrites = MaxConfigWrites
    /\ authChanges = MaxAuthChanges
    /\ clock = 1
    /\ config = <<>>
    /\ lastAuthHashes = EmptyMap
    /\ lastConfigHash = EmptyStr
    /\ authQueue = FALSE
    /\ currentAuths = <<>>
    /\ pendingUpdates = EmptyMap
    /\ pendingOrder = <<>>
    /\ timerArmed = FALSE
    /\ started = FALSE
    /\ pc = [p \in Procs |-> "idle"]
    /\ auths = [p \in Procs |-> <<>>]
    /\ updates = [p \in Procs |-> <<>>]
    /\ ev = <<>>
    /\ tdata = <<>>
    /\ batch = <<>>
    /\ delivered = EmptyMap
    /\ replaced = FALSE
    /\ prev = [p \in Procs |-> <<>>]
    /\ snapA = <<>>
    /\ snapB = <<>>
    /\ OtherInit

Next ==
    \/ SetConfig
    \/ SetAuthUpdateQueue
    \/ Start
    \/ StartReload
    \/ \E p \in Procs : RefreshSnapshot(p)
    \/ \E p \in Procs : RefreshPrepare(p)
    \/ \E p \in Procs : RefreshDispatch(p)
    \/ HandleEvent
    \/ AfterSleep
    \/ TimerFire
    \/ ReloadConfig
    \/ StoreConfigHash
    \/ nextPendingBatch
    \/ SendUpdate
    \/ \E content \in ConfigContents : WriteConfig(content)
    \/ \E name \in AuthNames, content \in AuthContents : WriteAuth(name, content)
    \/ \E name \in AuthNames : RemoveAuth(name)
    \/ Tick

Spec == Init /\ [][Next]_vars

(***************************************************************************)
(* The watcher once start-up is over: the service set the configuration    *)
(* and the queue, Start returned and the consumer received the first       *)
(* batch.  The environment has a larger budget of directory changes here.  *)
(***************************************************************************)
Running ==
    /\ configFile = YamlFile(CfgA)
    /\ authDir = [n \in AuthNames |-> JsonFile(MetaA)]
    /\ events = <<>>
    /\ clock = 1
    /\ config = <<CfgA>>
    /\ lastAuthHashes = WalkAuthHashes(authDir)
    /\ lastConfigHash = EmptyStr
    /\ authQueue = TRUE
    /\ currentAuths = <<NewStateOf(SnapshotCoreAuths(config, SortedNames, authDir,
                                                     clock, HeaderOrder))>>
    /\ pendingUpdates = EmptyMap
    /\ pendingOrder = <<>>
    /\ timerArmed = FALSE
    /\ started = TRUE
    /\ pc = [p \in Procs |-> IF p = "start" THEN "done" ELSE "idle"]
    /\ auths = [p \in Procs |-> <<>>]
    /\ updates = [p \in Procs |-> <<>>]
    /\ ev = <<>>
    /\ tdata = <<>>
    /\ batch = <<>>
    /\ delivered = [id \in DOMAIN currentAuths[1] |->
                       AuthUpdate("add", id, <<currentAuths[1][id]>>)]
    /\ replaced = FALSE
    /\ prev = [p \in Procs |-> <<>>]
    /\ snapA = <<>>
    /\ snapB = <<>>
    /\ OtherInit

InitRunning ==
    /\ Running
    /\ configWrites = MaxConfigWrites
    /\ authChanges = MaxRunningAuthChanges

NextRunning ==
    \/ \E p \in Procs : RefreshSnapshot(p)
    \/ \E p \in Procs : RefreshPrepare(p)
    \/ \E p \in Procs : RefreshDispatch(p)
    \/ HandleEvent
    \/ AfterSleep
    \/ TimerFire
    \/ ReloadConfig
    \/ StoreConfigHash
    \/ nextPendingBatch
    \/ SendUpdate
    \/ \E content \in ConfigContents : WriteConfig(content)
    \/ \E name \in AuthNames, content \in AuthContents : WriteAuth(name, content)
    \/ \E name \in AuthNames : RemoveAuth(name)

SpecRunning == InitRunning /\ [][NextRunning]_vars

(***************************************************************************)
(* Properties of the concurrent watcher.                                   *)
(***************************************************************************)
InRefresh(p) == pc[p] \in {"prep", "enq"}

\* C2: reloads are serialized: at no time have two goroutines taken their
\* snapshot in refreshAuthState without having enqueued their updates yet.
C2_ReloadsSerialized == Cardinality({p \in Procs : InRefresh(p)}) <= 1

Quiescent ==
    /\ events = <<>>
    /\ ~timerArmed
    /\ \A p \in Procs : pc[p] \in {"idle", "done"}
    /\ pendingOrder = <<>>
    /\ batch = <<>>

\* the update agrees with the map: deleted and absent, or present with that content
Agrees(update, current) ==
    IF update.Action = "delete"
    THEN update.ID \notin DOMAIN current
    ELSE /\ update.ID \in DOMAIN current
         /\ authEqual(update.Auth[1], current[update.ID])

\* C3: per-id total order: once every goroutine is idle and the queue is drained,
\* the last update the consumer received for an id agrees with the entry of
\* currentAuths for that id (present with that content, or absent).
C3_LastDeliveredAgrees ==
    (Quiescent /\ currentAuths # <<>>)
        => \A id \in DOMAIN delivered : Agrees(delivered[id], currentAuths[1])

\* C4: atomic replace: when handleEvent took a Remove or Rename of a file it knew
\* and held a credential for, and found the path back after the settle delay, the
\* updates of its reconciliation hold no Add and no Delete for that id.
C4_AtomicReplace ==
    (/\ pc["events"] = "enq"
     /\ ev # <<>>
     /\ ev[1].Op \in {"remove", "rename"}
     /\ ev[1].known
     /\ ev[1].had
     /\ ev[1].back)
        => \A i \in 1..Len(updates["events"]) :
               updates["events"][i].ID = BaseName(ev[1].Name)
                   => updates["events"][i].Action = "modify"

NoDuplicates(seq) == \A i, j \in 1..Len(seq) : i # j => seq[i] # seq[j]

PendingCoalesced ==
    /\ NoDuplicates(pendingOrder)
    /\ Range(pendingOrder) = DOMAIN pendingUpdates
    /\ \A key \in DOMAIN pendingUpdates : pendingUpdates[key].ID = key
    /\ NoDuplicates([i \in 1..Len(batch) |-> batch[i].ID])

Enqueues(p) == pc[p] = "enq" /\ pc'[p] # "enq" /\ authQueue

\* C7: coalescing by id: pendingOrder never holds a key twice and holds exactly the
\* keys of pendingUpdates, every pending update is filed under its own id, no batch
\* holds two updates for one id, and an enqueued update replaces the pending one
\* for its id.
C7_CoalescedById ==
    [][/\ PendingCoalesced'
       /\ \A p \in Procs : Enqueues(p) =>
              \A i \in 1..Len(updates[p]) :
                  pendingUpdates'[updates[p][i].ID] = updates[p][i]]_vars

\* an update was enqueued for an id that was pending, and is pending in its place
C7_Replaced == replaced /\ pendingOrder # <<>>

\* the consumer holds the credential: the last update it received for the id
\* was not a delete
ConsumerHolds(id) == id \in DOMAIN delivered /\ delivered[id].Action # "delete"

\* dispatchLoop sends the next update of its batch
Sends == batch # <<>> /\ batch' = Tail(batch)

\* C34: the updates delivered for one id have the shape add, modify ..., delete,
\* add ...: the consumer never receives a modify or a delete for an id it does
\* not hold, nor an add for an id it holds, also when updates for the id were
\* coalesced while pending.
C34_Lifecycle ==
    [][Sends => (ConsumerHolds(Head(batch).ID) <=> Head(batch).Action # "add")]_vars

\* C10: hash gate: reloadConfigIfChanged never gets past its gate, to reloadConfig,
\* with data equal to the content the active configuration was loaded from.
C10_HashGate ==
    ~(/\ pc["timer"] = "load"
      /\ config # <<>>
      /\ tdata[1] = YamlFile(config[1]))

(***************************************************************************)
(* Reloads of a config file that may be missing, empty or not valid YAML.  *)
(***************************************************************************)
ReloadContents == {YamlFile(CfgA), YamlFile(CfgB), GarbageFile, AbsentFile, EmptyFile}

InitReload ==
    /\ Running
    /\ configWrites = MaxReloadWrites
    /\ authChanges = 0

NextReload ==
    \/ \E p \in Procs : RefreshSnapshot(p)
    \/ \E p \in Procs : RefreshPrepare(p)
    \/ \E p \in Procs : RefreshDispatch(p)
    \/ HandleEvent
    \/ TimerFire
    \/ ReloadConfig
    \/ StoreConfigHash
    \/ nextPendingBatch
    \/ SendUpdate
    \/ \E content \in ReloadContents : WriteConfig(content)

SpecReload == InitReload /\ [][NextReload]_vars

\* the timer goroutine takes the step of reloadConfigIfChanged up to its gate
FiresTimer == timerArmed /\ ~timerArmed'

\* the timer goroutine takes the step of reloadConfig
LoadsConfig == pc["timer"] = "load" /\ pc'["timer"] # "load"

\* C36: a failed config reload changes nothing: when the file cannot be read, is
\* empty or does not parse, the active config, lastConfigHash, currentAuths and the pending
\* updates stay as they are and the goroutine returns without a reconciliation
\* (reloadClients and with it reloadCallback are not reached); and a file with
\* valid content whose hash is not the stored one is loaded and becomes the
\* active config.
C36_FailedReloadChangesNothing ==
    [][/\ ((FiresTimer /\ ~HasBytes(configFile)) \/ (LoadsConfig /\ configFile.kind # "yaml"))
           => /\ config' = config
              /\ lastConfigHash' = lastConfigHash
              /\ currentAuths' = currentAuths
              /\ pendingUpdates' = pendingUpdates
              /\ pendingOrder' = pendingOrder
              /\ pc'["timer"] = "idle"
       /\ (/\ FiresTimer
           /\ configFile.kind = "yaml"
           /\ lastConfigHash # <<Sha256Hex(configFile)>>) => pc'["timer"] = "load"
       /\ (LoadsConfig /\ configFile.kind = "yaml")
           => config' = <<configFile.cfg>> /\ pc'["timer"] = "snap"]_vars

\* the reload of a file that does not parse has returned and the configuration
\* that was active before is still active; a second write is still to come
C36_GarbageLeftConfig ==
    /\ configFile = GarbageFile
    /\ configWrites = MaxReloadWrites - 1
    /\ events = <<>>
    /\ ~timerArmed
    /\ pc["timer"] = "idle"
    /\ config = <<CfgA>>
    /\ lastConfigHash = EmptyStr

(***************************************************************************)
(* refreshAuthState run by one goroutine at a time, over a wider range of  *)
(* configurations and auth files.                                          *)
(***************************************************************************)
GeminiEntryWith(key, base, proxy, headers) ==
    [APIKey |-> key, BaseURL |-> base, ProxyURL |-> proxy, Headers |-> headers]

CfgHeaders ==
    MkConfig(<<GeminiEntryWith(<<"k1">>, <<>>, <<"px">>, (<<"X">> :> <<"v">>))>>,
             <<>>, <<>>, <<>>)

SeqConfigs == {CfgA, CfgB, CfgHeaders}

MetaClaude == ("type" :> <<"claude">>) @@ ("email" :> <<"x">>)
MetaProxy == ("type" :> <<"codex">>) @@ ("email" :> <<"x">>) @@ ("proxy_url" :> <<"px">>)
MetaGemini(projects) ==
    ("type" :> <<"gemini">>) @@ ("email" :> <<"x">>) @@ ("project_id" :> projects)

SeqFiles ==
    {AbsentFile, EmptyFile, GarbageFile,
     JsonFile(MetaA), JsonFile(MetaB), JsonFile(MetaClaude), JsonFile(MetaProxy),
     JsonFile(MetaGemini(<<"p">>)),
     JsonFile(MetaGemini(<<"p", ",", "q">>)),
     JsonFile(MetaGemini(<<"p", " ", "q", ",", "p", "_", "q">>))}

\* a goroutine reaches its call of refreshAuthState
CallRefresh ==
    /\ pc["events"] = "idle"
    /\ pc' = [pc EXCEPT !["events"] = "snap"]
    /\ UNCHANGED <<envVars, watcherVars, auths, updates, ev, tdata, dispatchVars,
                   seqVars, snapVars, otherVars>>

\* w.config = newConfig, of reloadConfig
ReplaceConfig(cfg) ==
    /\ configWrites > 0
    /\ configWrites' = configWrites - 1
    /\ config' = <<cfg>>
    /\ UNCHANGED <<configFile, authDir, events, authChanges, clock, lastAuthHashes,
                   lastConfigHash, authQueue, currentAuths, pendingUpdates,
                   pendingOrder, timerArmed, started, procVars, dispatchVars,
                   seqVars, snapVars, otherVars>>

\* the auth file is written, replaced or removed
ReplaceFile(name, file) ==
    /\ authChanges > 0
    /\ authChanges' = authChanges - 1
    /\ authDir' = [authDir EXCEPT ![name] = file]
    /\ UNCHANGED <<configFile, events, configWrites, clock, watcherVars, procVars,
                   dispatchVars, seqVars, snapVars, otherVars>>

InitSeq ==
    /\ configFile = EmptyFile
    /\ authDir \in [AuthNames -> SeqFiles]
    /\ events = <<>>
    /\ configWrites = MaxConfigWrites
    /\ authChanges = MaxAuthChanges
    /\ clock = 1
    /\ config \in {<<>>} \cup {<<c>> : c \in SeqConfigs}
    /\ lastAuthHashes = EmptyMap
    /\ lastConfigHash = EmptyStr
    /\ authQueue \in BOOLEAN
    /\ currentAuths = <<>>
    /\ pendingUpdates = EmptyMap
    /\ pendingOrder = <<>>
    /\ timerArmed = FALSE
    /\ started = FALSE
    /\ pc = [p \in Procs |-> "idle"]
    /\ auths = [p \in Procs |-> <<>>]
    /\ updates = [p \in Procs |-> <<>>]
    /\ ev = <<>>
    /\ tdata = <<>>
    /\ batch = <<>>
    /\ delivered = EmptyMap
    /\ replaced = FALSE
    /\ prev = [p \in Procs |-> <<>>]
    /\ snapA = <<>>
    /\ snapB = <<>>
    /\ OtherInit

NextSeq ==
    \/ CallRefresh
    \/ RefreshSnapshot("events")
    \/ RefreshPrepare("events")
    \/ RefreshDispatch("events")
    \/ \E cfg \in SeqConfigs : ReplaceConfig(cfg)
    \/ \E name \in AuthNames, file \in SeqFiles : ReplaceFile(name, file)
    \/ SetAuthUpdateQueue
    \/ Tick

SpecSeq == InitSeq /\ [][NextSeq]_vars

(***************************************************************************)
(* Properties of one reconciliation.                                       *)
(***************************************************************************)
\* the goroutine takes the step of prepareAuthUpdatesLocked
Prepares(p) == pc[p] = "prep" /\ pc'[p] = "enq"

MapOf(option) == IF option = <<>> THEN EmptyMap ELSE option[1]

RECURSIVE ApplyUpdates(_, _)
\* Add and Modify set the id to the carried auth, Delete removes the id
ApplyUpdates(current, us) ==
    IF us = <<>> THEN current
    ELSE ApplyUpdates(IF Head(us).Action = "delete"
                      THEN MapRemove(current, Head(us).ID)
                      ELSE MapPut(current, Head(us).ID, Head(us).Auth[1]),
                      Tail(us))

\* the fields that normalizeAuth keeps
KeptFields ==
    {"ID", "Provider", "Label", "Status", "Disabled", "ProxyURL", "Attributes", "Metadata"}

SameButTimes(a, b) == \A f \in KeptFields : a[f] = b[f]

SameMapButTimes(m1, m2) ==
    /\ DOMAIN m1 = DOMAIN m2
    /\ \A id \in DOMAIN m1 : SameButTimes(m1[id], m2[id])

\* the credential set derived from the active configuration and the directory
DerivedFromDisk ==
    NewStateOf(SnapshotCoreAuths(config, SortedNames, authDir, clock, HeaderOrder))

\* C32: convergence to disk state: once the events are handled, the timer is not
\* armed and no goroutine is in a reload, currentAuths holds the credentials
\* derived from the configuration and the auth directory as they are then (up to
\* the timestamps), so no reconciliation with an older snapshot had the last word.
C32_ConvergesToDisk ==
    (/\ events = <<>>
     /\ ~timerArmed
     /\ \A p \in Procs : pc[p] \in {"idle", "done"}
     /\ config # <<>>
     /\ currentAuths # <<>>)
        => SameMapButTimes(currentAuths[1], DerivedFromDisk)

IdsOf(as) == {as[i].ID : i \in 1..Len(as)} \ {EmptyStr}

\* C1: diff soundness: when prepareAuthUpdatesLocked runs with a queue configured,
\* applying the updates it returns to the previous currentAuths gives the ids of the
\* snapshot and, for every id, the auth the watcher now holds, up to the normalized
\* timestamp and runtime fields.
C1_DiffSoundness ==
    [][\A p \in Procs : (Prepares(p) /\ authQueue) =>
          LET applied == ApplyUpdates(MapOf(currentAuths), updates'[p])
          IN  /\ DOMAIN applied = IdsOf(auths[p])
              /\ SameMapButTimes(applied, currentAuths'[1])]_vars

HasAction(us, action) == \E i \in 1..Len(us) : us[i].Action = action

\* a reconciliation with a queue returned an Add, a Modify and a Delete
C1_MixedDiff ==
    \E p \in Procs :
        /\ pc[p] = "enq"
        /\ authQueue
        /\ HasAction(updates[p], "add")
        /\ HasAction(updates[p], "modify")
        /\ HasAction(updates[p], "delete")
        /\ SameMapButTimes(ApplyUpdates(MapOf(prev[p]), updates[p]), currentAuths[1])

UpdatesFor(us, id) == {i \in 1..Len(us) : us[i].ID = id}

\* what the claim says of the ids that the previous and the new state share
EqualityRule(before, after, us) ==
    \A id \in DOMAIN before \cap DOMAIN after :
        IF SameButTimes(before[id], after[id])
        THEN UpdatesFor(us, id) = {}
        ELSE \E i \in 1..Len(us) :
                 /\ UpdatesFor(us, id) = {i}
                 /\ us[i].Action = "modify"

\* C5 as stated: a credential that differs from the previous one only in the
\* normalized fields gets no update, one that differs in another field gets exactly
\* one Modify, whether or not a queue is configured.
C5_EqualityModuloTimes ==
    [][\A p \in Procs : (Prepares(p) /\ currentAuths # <<>>) =>
          EqualityRule(currentAuths[1], currentAuths'[1], updates'[p])]_vars

\* C5 amended: the same, when an update queue is configured.
C5_EqualityWithQueue ==
    [][\A p \in Procs : (Prepares(p) /\ currentAuths # <<>> /\ authQueue) =>
          EqualityRule(currentAuths[1], currentAuths'[1], updates'[p])]_vars

\* with a queue, one credential changed only its timestamps and got no update and
\* another changed a kept field and got its Modify
C5_BothCases ==
    \E p \in Procs :
        /\ pc[p] = "enq"
        /\ authQueue
        /\ prev[p] # <<>>
        /\ \E id \in DOMAIN prev[p][1] \cap DOMAIN currentAuths[1] :
               /\ SameButTimes(prev[p][1][id], currentAuths[1][id])
               /\ prev[p][1][id].CreatedAt # currentAuths[1][id].CreatedAt
               /\ UpdatesFor(updates[p], id) = {}
        /\ \E id \in DOMAIN prev[p][1] \cap DOMAIN currentAuths[1] :
               /\ ~SameButTimes(prev[p][1][id], currentAuths[1][id])
               /\ \E i \in UpdatesFor(updates[p], id) : updates[p][i].Action = "modify"

\* currentAuths is what a reconciliation of the present config and directory left,
\* and the goroutine's snapshot is of the same config and directory
SecondRun(p) ==
    /\ auths[p] = SnapshotCoreAuths(config, SortedNames, authDir, clock, HeaderOrder)
    /\ \E t \in 1..clock :
           currentAuths = <<NewStateOf(SnapshotCoreAuths(config, SortedNames, authDir,
                                                         t, HeaderOrder))>>

KeyEntry(key, base, proxy, models, providerType) ==
    [APIKey |-> key, BaseURL |-> base, ProxyURL |-> proxy, Headers |-> EmptyMap,
     Models |-> models, ProviderType |-> providerType]

Model(alias, name) == [Alias |-> alias, Name |-> name]

Compat(name, base, entries, keys) ==
    [Name |-> name, BaseURL |-> base, APIKeyEntries |-> entries, APIKeys |-> keys,
     Models |-> <<>>, Headers |-> EmptyMap]

CompatKey(key, proxy) == [APIKey |-> key, ProxyURL |-> proxy]

GemP1 == GeminiEntry(<<"k1">>, <<"u">>, <<"p1">>)
GemP2 == GeminiEntry(<<" ", "k1">>, <<"u">>, <<"p2">>)
GemOther == GeminiEntry(<<"k2">>, <<>>, <<>>)

CfgKeys ==
    MkConfig(<<GemOther>>,
             <<KeyEntry(<<"k1">>, <<"u">>, <<>>, <<Model(<<"m">>, <<"n">>)>>, <<>>)>>,
             <<KeyEntry(<<"k1">>, <<"u">>, <<>>, <<>>, <<>>),
               KeyEntry(<<"k1">>, <<"u">>, <<>>,
                        <<Model(<<"m">>, <<"n1">>), Model(<<"m">>, <<"n2">>),
                          Model(<<>>, <<"n3">>)>>,
                        <<"C", "laude">>)>>,
             <<>>)

CfgCompat ==
    MkConfig(<<>>, <<>>, <<>>,
             <<Compat(<<"C", "o">>, <<"u">>,
                      <<CompatKey(<<"k1">>, <<"p1">>), CompatKey(<<"k1">>, <<"p1">>),
                        CompatKey(<<>>, <<>>)>>, <<>>),
               Compat(<<"c", "o">>, <<"u">>, <<>>, <<<<"k1">>, <<>>, <<"k1">>>>),
               Compat(<<>>, <<"u">>, <<>>, <<>>)>>)

SnapConfigs ==
    {MkConfig(<<GemP1, GemP2>>, <<>>, <<>>, <<>>),
     MkConfig(<<GemP2>>, <<>>, <<>>, <<>>),
     MkConfig(<<GemP2, GemP1>>, <<>>, <<>>, <<>>),
     MkConfig(<<GemOther, GemP1, GemP1>>, <<>>, <<>>, <<>>),
     CfgKeys, CfgCompat, CfgHeaders}

SnapFiles ==
    {AbsentFile, JsonFile(MetaA),
     JsonFile(MetaGemini(<<"p", ",", "q">>)),
     JsonFile(MetaGemini(<<"p", " ", "q", ",", "p", "_", "q">>))}

TakeSnapshot(cfg, dir) ==
    [cfg   |-> cfg,
     dir   |-> dir,
     auths |-> SnapshotCoreAuths(<<cfg>>, SortedNames, dir, 1, HeaderOrder),
     calls |-> SnapConfig(<<cfg>>, 1, HeaderOrder).gen.calls]

SnapshotA(cfg, dir) ==
    /\ snapA' = <<TakeSnapshot(cfg, dir)>>
    /\ UNCHANGED <<envVars, watcherVars, procVars, dispatchVars, seqVars, snapB, otherVars>>

SnapshotB(cfg, dir) ==
    /\ snapB' = <<TakeSnapshot(cfg, dir)>>
    /\ UNCHANGED <<envVars, watcherVars, procVars, dispatchVars, seqVars, snapA, otherVars>>

NextSnap ==
    \/ \E cfg \in SnapConfigs, dir \in [AuthNames -> SnapFiles] : SnapshotA(cfg, dir)
    \/ \E cfg \in SnapConfigs, dir \in [AuthNames -> SnapFiles] : SnapshotB(cfg, dir)

SpecSnap == Init /\ [][NextSnap]_vars

(***************************************************************************)
(* Properties of the ids.                                                  *)
(***************************************************************************)
Taken == {snapA[i] : i \in 1..Len(snapA)} \cup {snapB[i] : i \in 1..Len(snapB)}

\* C8: unique ids: the credentials of a snapshot have pairwise distinct ids.
C8_UniqueIds ==
    \A s \in Taken : NoDuplicates([i \in 1..Len(s.auths) |-> s.auths[i].ID])

TrimAll(parts) == [i \in 1..Len(parts) |-> TrimSpace(parts[i])]

SameSource(c, d) == c.kind = d.kind /\ TrimAll(c.parts) = TrimAll(d.parts)

\* how many earlier calls of the snapshot had the kind and the trimmed parts of call i
Earlier(calls, i) == Cardinality({k \in 1..(i - 1) : SameSource(calls[k], calls[i])})

\* what a credential is made from: all that normalizeAuth keeps, less the id and the
\* source attribute that quotes it
SourceOf(a) ==
    [f \in KeptFields \ {"ID"} |->
        IF f = "Attributes" THEN MapRemove(a.Attributes, <<"source">>) ELSE a[f]]

OnlyOne(as, i) == \A k \in 1..Len(as) : k # i => SourceOf(as[k]) # SourceOf(as[i])

ConfigAuths(s) == SubSeq(s.auths, 1, Len(s.calls))

\* C9 as stated: a config entry keeps its id whatever other entries the two
\* configurations hold: two config credentials made from the same entry, each the
\* only one of its snapshot made from it, have the same id.
C9_StableIds ==
    \A s \in Taken, t \in Taken :
        \A i \in 1..Len(ConfigAuths(s)), j \in 1..Len(ConfigAuths(t)) :
            (/\ SourceOf(ConfigAuths(s)[i]) = SourceOf(ConfigAuths(t)[j])
             /\ OnlyOne(ConfigAuths(s), i)
             /\ OnlyOne(ConfigAuths(t), j))
                => ConfigAuths(s)[i].ID = ConfigAuths(t)[j].ID

\* C9 amended: the id is a function of the kind, the trimmed parts and the number of
\* earlier entries of the snapshot with that kind and those parts; two snapshots of
\* one configuration give the same ids.
C9_StableIdsPerIndex ==
    \A s \in Taken, t \in Taken :
        /\ \A i \in 1..Len(s.calls), j \in 1..Len(t.calls) :
               (SameSource(s.calls[i], t.calls[j])
                /\ Earlier(s.calls, i) = Earlier(t.calls, j))
                   => s.calls[i].id = t.calls[j].id
        /\ s.cfg = t.cfg =>
               [i \in 1..Len(s.calls) |-> s.calls[i].id]
                   = [j \in 1..Len(t.calls) |-> t.calls[j].id]

\* two snapshots hold an entry with the same kind and parts at the same index and
\* one with the same kind and parts at different indexes
C9_SharedEntries ==
    /\ snapA # <<>>
    /\ snapB # <<>>
    /\ snapA[1].cfg # snapB[1].cfg
    /\ \E i \in 1..Len(snapA[1].calls), j \in 1..Len(snapB[1].calls) :
           /\ SameSource(snapA[1].calls[i], snapB[1].calls[j])
           /\ Earlier(snapA[1].calls, i) = Earlier(snapB[1].calls, j)
           /\ i # j
    /\ \E i \in 1..Len(snapA[1].calls), j \in 1..Len(snapB[1].calls) :
           /\ SameSource(snapA[1].calls[i], snapB[1].calls[j])
           /\ Earlier(snapA[1].calls, i) # Earlier(snapB[1].calls, j)


(***************************************************************************)
(* The running watcher while files are truncated: the environment empties  *)
(* an auth file or the config file, or writes them back.                   *)
(***************************************************************************)
TruncConfigContents == {YamlFile(CfgB), EmptyFile}

TruncAuthContents == {EmptyFile, JsonFile(MetaA)}

InitTrunc ==
    /\ Running
    /\ configWrites = MaxConfigWrites
    /\ authChanges = MaxRunningAuthChanges

NextTrunc ==
    \/ \E p \in Procs : RefreshSnapshot(p)
    \/ \E p \in Procs : RefreshPrepare(p)
    \/ \E p \in Procs : RefreshDispatch(p)
    \/ HandleEvent
    \/ TimerFire
    \/ ReloadConfig
    \/ StoreConfigHash
    \/ nextPendingBatch
    \/ SendUpdate
    \/ \E content \in TruncConfigContents : WriteConfig(content)
    \/ \E name \in AuthNames, content \in TruncAuthContents : WriteAuth(name, content)

SpecTrunc == InitTrunc /\ [][NextTrunc]_vars

\* handleEvent takes a Write or Create of an auth file that is empty
TakesEmptyAuthEvent ==
    /\ pc["events"] = "idle"
    /\ events # <<>>
    /\ events' = Tail(events)
    /\ isAuthJSON(Head(events))
    /\ FileAt(authDir, Head(events).Name) = EmptyFile

\* the timer fires on an empty config file
FiresOnEmptyConfig ==
    /\ timerArmed
    /\ ~timerArmed'
    /\ configFile = EmptyFile

Holds(current, n) == current # <<>> /\ n \in DOMAIN current[1]

\* C11: empty files are ignored: an event for an empty auth file records no hash
\* and starts no reconciliation, a timer that finds the config file empty starts
\* no reload, and while an auth file stays empty the credential it backed stays
\* in currentAuths with the same content.
C11_EmptyFilesIgnored ==
    [][/\ TakesEmptyAuthEvent =>
              (lastAuthHashes' = lastAuthHashes /\ pc'["events"] = "idle")
       /\ FiresOnEmptyConfig => pc'["timer"] = pc["timer"]
       /\ \A n \in AuthNames :
              (/\ authDir[n] = EmptyFile
               /\ authDir'[n] = EmptyFile
               /\ Holds(currentAuths, n))
                  => (/\ Holds(currentAuths', n)
                      /\ authEqual(currentAuths'[1][n], currentAuths[1][n]))]_vars

(***************************************************************************)
(* The debounce of config reloads: scheduleConfigReload and the function   *)
(* of its timer, with the runtime's timers and the passing of time.        *)
(***************************************************************************)
\* 150 ms, and the 50 ms that one unit of `now` stands for
configReloadDebounce == 3

\* timer.Stop(): the timer is taken from the runtime unless it has expired
StopTimer(active, ref) ==
    IF ref = <<>> THEN active ELSE {t \in active : t.id # ref[1]}

\* scheduleConfigReload, under configReloadMu, for the event number id at time t
scheduleConfigReload(active, ref, id, t) ==
    [timers   |-> StopTimer(active, ref)
                      \cup {[id |-> id, due |-> t + configReloadDebounce]},
     timerRef |-> <<id>>]

OtherUnchanged ==
    UNCHANGED <<envVars, watcherVars, procVars, dispatchVars, seqVars, snapVars,
                execVars, restVars>>

\* handleEvent takes a config event and calls scheduleConfigReload
ConfigEvent ==
    /\ Len(handled) < MaxConfigEvents
    /\ LET r == scheduleConfigReload(timers, timerRef, Len(handled) + 1, now)
       IN  /\ timers' = r.timers
           /\ timerRef' = r.timerRef
    /\ handled' = Append(handled, now)
    /\ UNCHANGED <<now, running, reloads>>
    /\ OtherUnchanged

\* the runtime finds the timer due and starts its function in a goroutine
TimerExpire(t) ==
    /\ t \in timers
    /\ now >= t.due
    /\ timers' = timers \ {t}
    /\ running' = running \cup {t.id}
    /\ UNCHANGED <<now, handled, timerRef, reloads>>
    /\ OtherUnchanged

\* the function of the timer: w.configReloadTimer = nil under configReloadMu,
\* then reloadConfigIfChanged
TimerFunc(id) ==
    /\ id \in running
    /\ timerRef' = <<>>
    /\ running' = running \ {id}
    /\ reloads' = Append(reloads, [id |-> id, at |-> now])
    /\ UNCHANGED <<now, handled, timers>>
    /\ OtherUnchanged

TimePasses ==
    /\ now < MaxNow
    /\ now' = now + 1
    /\ UNCHANGED <<handled, timers, timerRef, running, reloads>>
    /\ OtherUnchanged

NextDebounce ==
    \/ ConfigEvent
    \/ \E t \in timers : TimerExpire(t)
    \/ \E id \in running : TimerFunc(id)
    \/ TimePasses

SpecDebounce == Init /\ [][NextDebounce]_vars

\* the event number i is followed, less than 150 ms later, by another event
Followed(i) ==
    /\ i < Len(handled)
    /\ handled[i + 1] - handled[i] < configReloadDebounce

\* C12: config debounce: reloadConfigIfChanged is run at most once for a timer,
\* never for the timer of an event that the next event followed by less than
\* 150 ms, and not before 150 ms have passed since the event of its timer: a
\* burst gets the one run of its last event.
C12_Debounced ==
    \A i \in 1..Len(reloads) :
        /\ ~Followed(reloads[i].id)
        /\ reloads[i].at >= handled[reloads[i].id] + configReloadDebounce
        /\ \A j \in 1..Len(reloads) : reloads[j].id = reloads[i].id => j = i

(***************************************************************************)
(* The running watcher over two auth files, one of which is overwritten    *)
(* with content that is not a JSON object or has no type.                  *)
(***************************************************************************)
TwoNames == {NameA, NameB}

MetaNoType == ("email" :> <<"x">>)

MetaEmptyType == ("type" :> <<>>) @@ ("email" :> <<"x">>)

InvalidContents == {GarbageFile, JsonFile(MetaNoType), JsonFile(MetaEmptyType)}

ValidContents == {JsonFile(MetaA), JsonFile(MetaGemini(<<"p", ",", "q">>))}

InitInvalid ==
    /\ configFile = YamlFile(CfgA)
    /\ authDir \in [TwoNames -> ValidContents \cup {GarbageFile}]
    /\ events = <<>>
    /\ configWrites = 0
    /\ authChanges = MaxRunningAuthChanges
    /\ clock = 1
    /\ config = <<CfgA>>
    /\ lastAuthHashes = WalkAuthHashes(authDir)
    /\ lastConfigHash = EmptyStr
    /\ authQueue \in BOOLEAN
    /\ currentAuths = <<NewStateOf(SnapshotCoreAuths(config, SortedNames, authDir,
                                                     clock, HeaderOrder))>>
    /\ pendingUpdates = EmptyMap
    /\ pendingOrder = <<>>
    /\ timerArmed = FALSE
    /\ started = TRUE
    /\ pc = [p \in Procs |-> IF p = "start" THEN "done" ELSE "idle"]
    /\ auths = [p \in Procs |-> <<>>]
    /\ updates = [p \in Procs |-> <<>>]
    /\ ev = <<>>
    /\ tdata = <<>>
    /\ batch = <<>>
    /\ delivered = EmptyMap
    /\ replaced = FALSE
    /\ prev = [p \in Procs |-> <<>>]
    /\ snapA = <<>>
    /\ snapB = <<>>
    /\ OtherInit

NextInvalid ==
    \/ \E p \in Procs : RefreshSnapshot(p)
    \/ \E p \in Procs : RefreshPrepare(p)
    \/ \E p \in Procs : RefreshDispatch(p)
    \/ HandleEvent
    \/ nextPendingBatch
    \/ SendUpdate
    \/ \E name \in TwoNames, content \in InvalidContents : WriteAuth(name, content)

SpecInvalid == InitInvalid /\ [][NextInvalid]_vars

\* the file is not a JSON object, or its type is missing or empty
Invalid(file) ==
    \/ file.kind = "garbage"
    \/ file.kind = "json" /\ MapGet(file.meta, "type") = <<>>

InvalidPaths == {FilePath(n) : n \in {m \in DOMAIN authDir : Invalid(authDir[m])}}

\* the auth file behind a credential, <<>> for a credential of a config entry
PathOf(a) == MapGet(a.Attributes, <<"path">>)

Snapshots(p) == pc[p] = "snap" /\ pc'[p] = "prep"

CodexModelLists ==
    {<<>>,
     <<Model(<<"m">>, <<"n">>)>>,
     <<Model(<<"m">>, <<" ", "n1">>), Model(<<"m">>, <<"n2">>)>>,
     <<Model(<<" ">>, <<"n3">>), Model(<<"m2", " ">>, <<>>)>>}

CodexEntries ==
    {KeyEntry(key, base, <<>>, models, providerType) :
        key \in {<<"k1">>, <<" ">>},
        base \in {<<>>, <<"u">>},
        models \in CodexModelLists,
        providerType \in {<<>>, <<"C", "laude">>}}

CodexConfigs ==
    {MkConfig(<<>>, <<>>, <<e>>, <<>>) : e \in CodexEntries}
    \cup {MkConfig(<<>>, <<>>, <<e1, e2>>, <<>>) :
             e1, e2 \in {e \in CodexEntries : e.APIKey = <<"k1">> /\ e.BaseURL = <<"u">>}}

NoFiles == [n \in AuthNames |-> AbsentFile]

\* one snapshot of a first configuration, one of a second
NextCodex ==
    \/ snapA = <<>> /\ \E cfg \in CodexConfigs : SnapshotA(cfg, NoFiles)
    \/ snapB = <<>> /\ \E cfg \in CodexConfigs : SnapshotB(cfg, NoFiles)

SpecCodex == Init /\ [][NextCodex]_vars

IsCrossProvider(a) == HasPrefix(a.Provider, <<"cross-provider-">>)

CrossProviderKeys ==
    {<<"provider_type">>, <<"model_alias">>, <<"model_name">>, <<"api_key">>,
     <<"base_url">>}

\* C14: every credential of provider cross-provider-<type> has the five keys
\* provider_type, model_alias, model_name, api_key and base_url in its attributes.
C14_FiveKeys ==
    \A s \in Taken : \A i \in 1..Len(s.auths) :
        IsCrossProvider(s.auths[i]) => CrossProviderKeys \subseteq DOMAIN s.auths[i].Attributes

DeclaresProviderType(e) == TrimSpace(e.ProviderType) # <<>>

HasKey(e) == TrimSpace(e.APIKey) # <<>>

\* the models of an entry that declare an alias, as <<alias, name>>
Declared(models) ==
    LET named == SelectSeq(models, LAMBDA m : TrimSpace(m.Alias) # <<>>)
    IN  [i \in 1..Len(named) |-> <<TrimSpace(named[i].Alias), TrimSpace(named[i].Name)>>]

RECURSIVE DeclaredBy(_)
\* the declared models of the entries, one entry after the other
DeclaredBy(entries) ==
    IF entries = <<>> THEN <<>>
    ELSE Declared(Head(entries).Models) \o DeclaredBy(Tail(entries))

\* the cross-provider credentials of the snapshot, as <<model_alias, model_name>>
Synthesized(s) ==
    LET cross == SelectSeq(s.auths, IsCrossProvider)
    IN  [i \in 1..Len(cross) |-> <<MapGet(cross[i].Attributes, <<"model_alias">>),
                                   MapGet(cross[i].Attributes, <<"model_name">>)>>]

PlainCodex(s) == SelectSeq(s.auths, LAMBDA a : a.Provider = <<"codex">>)

\* C15 as stated: the cross-provider credentials of a snapshot are, in order, one
\* for each model alias declared by the entries that declare a provider-type, with
\* that alias and its name, and these entries yield no plain codex credential (and
\* nothing at all when they declare no models).
C15_OnePerAlias ==
    \A s \in Taken :
        /\ Synthesized(s) = DeclaredBy(SelectSeq(s.cfg.CodexKey, DeclaresProviderType))
        /\ Len(PlainCodex(s)) <= Len(SelectSeq(s.cfg.CodexKey,
                                              LAMBDA e : ~DeclaresProviderType(e)))

\* C15 amended: the same for the entries that have an api-key, and the entries
\* with an api-key and without provider-type yield one plain codex credential each.
C15_OnePerAliasOfKeyed ==
    \A s \in Taken :
        /\ Synthesized(s) = DeclaredBy(SelectSeq(s.cfg.CodexKey,
                                LAMBDA e : HasKey(e) /\ DeclaresProviderType(e)))
        /\ Len(PlainCodex(s)) = Len(SelectSeq(s.cfg.CodexKey,
                                        LAMBDA e : HasKey(e) /\ ~DeclaresProviderType(e)))

\* a snapshot of two entries with a provider-type, the first with two models of
\* one alias, and a snapshot of an entry with a provider-type and no models
C15_TwoAliases ==
    /\ \E s \in Taken :
           /\ Len(s.cfg.CodexKey) = 2
           /\ \A i \in 1..2 : DeclaresProviderType(s.cfg.CodexKey[i])
           /\ Len(s.cfg.CodexKey[1].Models) = 2
           /\ Len(Synthesized(s)) = 3
    /\ \E s \in Taken :
           /\ Len(s.cfg.CodexKey) = 1
           /\ DeclaresProviderType(s.cfg.CodexKey[1])
           /\ HasKey(s.cfg.CodexKey[1])
           /\ s.cfg.CodexKey[1].Models = <<>>
           /\ s.auths = <<>>

(***************************************************************************)
(* The cross-provider executor.  A JSON value is [t, v]: a string, an      *)
(* array, null or a boolean; a payload maps its top-level keys to values.  *)
(* A message is [role, content]; its content is a string or an array of    *)
(* parts [type, text].                                                     *)
(***************************************************************************)
JStr(s) == [t |-> "string", v |-> s]
JArr(xs) == [t |-> "array", v |-> xs]
JBool(b) == [t |-> "bool", v |-> b]
JNull == [t |-> "null", v |-> <<>>]
JMissing == [t |-> "missing", v |-> <<>>]

Message(role, content) == [role |-> role, content |-> content]

StringContent(s) == [t |-> "string", str |-> s, parts |-> <<>>]

ArrayContent(parts) == [t |-> "array", str |-> <<>>, parts |-> parts]

MissingContent == [t |-> "missing", str |-> <<>>, parts |-> <<>>]

Part(type, text) == [type |-> type, text |-> text]

TextPart(text) == Part("text", text)

IsArray(body, key) == key \in DOMAIN body /\ body[key].t = "array"

\* the system parts one message of role system contributes
SystemPartsOf(msg) ==
    LET content == msg.content
    IN  IF content.t = "string" /\ content.str # <<>> THEN <<TextPart(content.str)>>
        ELSE IF content.t = "array"
        THEN LET texts == SelectSeq(content.parts, LAMBDA part : part.type = "text")
             IN  [i \in 1..Len(texts) |-> TextPart(texts[i].text)]
        ELSE <<>>

RECURSIVE CollectSystemParts(_)
\* messages.ForEach: systemParts
CollectSystemParts(messages) ==
    IF messages = <<>> THEN <<>>
    ELSE (IF Head(messages).role = "system" THEN SystemPartsOf(Head(messages)) ELSE <<>>)
         \o CollectSystemParts(Tail(messages))

\* json.Marshal of a slice: null for the nil slice
MarshalSlice(xs) == IF xs = <<>> THEN JNull ELSE JArr(xs)

extractSystemToTopLevel(body) ==
    IF ~IsArray(body, "messages") THEN body
    ELSE LET messages    == body["messages"].v
             systemParts == CollectSystemParts(messages)
             filtered    == SelectSeq(messages, LAMBDA msg : msg.role # "system")
         IN  IF Len(systemParts) > 0
             THEN MapPut(MapPut(body, "system", MarshalSlice(systemParts)),
                         "messages", MarshalSlice(filtered))
             ELSE body

(***************************************************************************)
(* Execute, ExecuteStream and CountTokens.  auth is <<>> (nil) or <<auth>>; *)
(* the upstream is what the HTTP exchange does: [doErr, status, body,      *)
(* readErr, got], got being the bytes read when the read of the body fails. *)
(***************************************************************************)
StatusUnauthorized == 401

\* a status error that drops the message
statusErrNoBody(code, msg) == [kind |-> "status", code |-> code, msg |-> <<>>]

statusErr(code, msg) == [kind |-> "status", code |-> code, msg |-> msg]

PlainErr(what) == [kind |-> what, code |-> 0, msg |-> <<>>]

\* crossProviderCreds that takes the attributes as they are stored
crossProviderCredsUntrimmed(auth) ==
    IF auth = <<>> \/ auth[1].Attributes = EmptyMap
    THEN [apiKey |-> <<>>, baseURL |-> <<>>]
    ELSE [apiKey  |-> MapGet(auth[1].Attributes, <<"api_key">>),
          baseURL |-> MapGet(auth[1].Attributes, <<"base_url">>)]

crossProviderCreds(auth) ==
    IF auth = <<>> \/ auth[1].Attributes = EmptyMap
    THEN [apiKey |-> <<>>, baseURL |-> <<>>]
    ELSE [apiKey  |-> TrimSpace(MapGet(auth[1].Attributes, <<"api_key">>)),
          baseURL |-> TrimSpace(MapGet(auth[1].Attributes, <<"base_url">>))]

\* a resolveUpstreamModel that returns the attribute as it is stored
resolveUntrimmed(alias, auth) ==
    IF alias = <<>> \/ auth = <<>> \/ auth[1].Attributes = EmptyMap THEN <<>>
    ELSE IF TrimSpace(MapGet(auth[1].Attributes, <<"model_name">>)) = <<>> THEN <<>>
    ELSE MapGet(auth[1].Attributes, <<"model_name">>)

resolveUpstreamModel(alias, auth) ==
    IF alias = <<>> \/ auth = <<>> \/ auth[1].Attributes = EmptyMap THEN <<>>
    ELSE TrimSpace(MapGet(auth[1].Attributes, <<"model_name">>))

\* a Responses request as gjson reads its bytes: text that is no JSON has no fields
Request(instructions, input) ==
    [json |-> TRUE, raw |-> <<>>, instructions |-> instructions, input |-> input]

Malformed(raw) ==
    [json |-> FALSE, raw |-> raw, instructions |-> <<>>, input |-> <<>>]

InputItem(type, role, content, callID) ==
    [type |-> type, role |-> role, content |-> content, call_id |-> callID]

\* an input item of a Responses request: a message of one text part
Item(role, ptype, text) == InputItem("message", role, ArrayContent(<<Part(ptype, text)>>), <<>>)

JNum(n) == [t |-> "number", v |-> <<n>>]

DefaultMaxTokens == 32000

\* the parts of a content array, none for a content that is no array
PartsOf(content) == IF content.t = "array" THEN content.parts ELSE <<>>

\* system parts of the converter: instructions, then the texts of the system items
ConvSystemParts(request) ==
    LET RECURSIVE Texts(_)
        Texts(items) ==
            IF items = <<>> THEN <<>>
            ELSE (IF EqualFold(Head(items).role, <<"system">>)
                  THEN LET parts == SelectSeq(PartsOf(Head(items).content),
                                              LAMBDA part : part.text # <<>>)
                       IN  [i \in 1..Len(parts) |-> TextPart(parts[i].text)]
                  ELSE <<>>)
                 \o Texts(Tail(items))
    IN  (IF request.instructions # <<>> THEN <<TextPart(request.instructions)>> ELSE <<>>)
        \o Texts(request.input)

\* the content parts of an input item of type message
ConvParts(item) ==
    LET parts == SelectSeq(PartsOf(item.content),
                     LAMBDA part : \/ part.type \in {"input_text", "output_text"}
                                   \/ part.type = "input_image" /\ part.text # <<>>)
    IN  [i \in 1..Len(parts) |->
            IF parts[i].type = "input_image"
            THEN Part("image", parts[i].text) ELSE TextPart(parts[i].text)]

\* the role of a message: that of its last text part, user for images alone, and
\* the given role, when that is user or assistant, for a message without parts
ConvRole(item) ==
    LET texts == SelectSeq(PartsOf(item.content),
                     LAMBDA part : part.type \in {"input_text", "output_text"})
    IN  IF texts # <<>>
        THEN IF texts[Len(texts)].type = "input_text" THEN "user" ELSE "assistant"
        ELSE IF ConvParts(item) # <<>> THEN "user"
        ELSE IF item.role = <<"assistant">> THEN "assistant" ELSE "user"

\* the function_call items before item i that need a generated id
GeneratedBefore(items, i) ==
    Cardinality({j \in 1..(i - 1) :
                    /\ ~EqualFold(items[j].role, <<"system">>)
                    /\ items[j].type = "function_call"
                    /\ items[j].call_id = <<>>})

\* the messages of one input item: none or one
ConvItem(env, items, i) ==
    LET item  == items[i]
        typ   == IF item.type = "" /\ item.role # <<>> THEN "message" ELSE item.type
        parts == ConvParts(item)
    IN  IF EqualFold(item.role, <<"system">>) THEN <<>>
        ELSE IF typ = "message"
        THEN IF parts = <<>> THEN <<>>
             ELSE IF Len(parts) = 1 /\ parts[1].type = "text"
             THEN <<Message(ConvRole(item), StringContent(parts[1].text))>>
             ELSE <<Message(ConvRole(item), ArrayContent(parts))>>
        ELSE IF typ = "function_call"
        THEN <<Message("assistant", ArrayContent(<<Part("tool_use",
                   IF item.call_id = <<>>
                   THEN env.toolIDs[GeneratedBefore(items, i) + 1]
                   ELSE item.call_id)>>))>>
        ELSE IF typ = "function_call_output"
        THEN <<Message("user", ArrayContent(<<Part("tool_result", item.call_id)>>))>>
        ELSE <<>>

RECURSIVE ConvItems(_, _, _)
ConvItems(env, items, i) ==
    IF i > Len(items) THEN <<>>
    ELSE ConvItem(env, items, i) \o ConvItems(env, items, i + 1)

\* ConvertOpenAIResponsesRequestToClaude for requests without tools, tool_choice and
\* max_output_tokens; env is what the call takes from outside its arguments: the
\* user id made of the package variables and the ids that genToolCallID draws
ConvertOpenAIResponsesRequestToClaude(env, modelName, request, stream) ==
    LET system == ConvSystemParts(request)
        out    == ("model" :> JStr(modelName))
                  @@ ("max_tokens" :> JNum(DefaultMaxTokens))
                  @@ ("messages" :> JArr(ConvItems(env, request.input, 1)))
                  @@ ("metadata" :> JStr(env.userID))
                  @@ ("stream" :> JBool(stream))
    IN  IF Len(system) > 0 THEN MapPut(out, "system", JArr(system)) ELSE out

\* the user id and tool ids of the calls of the executor
ExecEnv == [userID |-> <<"user_id">>, toolIDs |-> <<>>]

\* the payload up to extractSystemToTopLevel, common to the three operations
TargetPayload(auth, req, stream) ==
    LET body     == ConvertOpenAIResponsesRequestToClaude(ExecEnv, req.Model, req.Payload, stream)
        override == resolveUpstreamModel(req.Model, auth)
        named    == IF override # <<>> THEN MapPut(body, "model", JStr(override)) ELSE body
        streamed == IF stream THEN MapPut(named, "stream", JBool(TRUE)) ELSE named
    IN  extractSystemToTopLevel(streamed)

\* sanitizeToolNames: the payloads here declare no tools
sanitizeToolNames(body) == body

\* applyPayloadConfig: the configuration here declares no payload rules
applyPayloadConfig(model, body) == body

TrimSuffix(s, suffix) ==
    IF HasSuffix(s, suffix) THEN SubSeq(s, 1, Len(s) - Len(suffix)) ELSE s

\* the request handed to httpClient.Do
UpstreamRequest(creds, body) ==
    [url    |-> TrimSuffix(creds.baseURL, <<"/">>) \o <<"/v1/messages">>,
     apiKey |-> creds.apiKey,
     body   |-> body]

\* io.ReadAll(httpResp.Body): the bytes read, all of them unless the read fails
ReadAll(up) == IF up.readErr THEN SubSeq(up.body, 1, up.got) ELSE up.body

\* what an operation leaves: the error or <<>>, the target payload it built, the
\* request it sent, whether a response translator ran, the payload and the channel
\* it returned
Outcome(err, body, sent, translated, payload, channel) ==
    [err |-> err, body |-> body, sent |-> sent, translated |-> translated,
     payload |-> payload, channel |-> channel]

Failed(err) == Outcome(<<err>>, <<>>, <<>>, FALSE, <<>>, FALSE)

\* TranslateNonStream: the response in the client's dialect
TranslateNonStream(data) == <<"openai">> \o data

executeWithClaude(auth, req, up) ==
    LET creds == crossProviderCreds(auth)
        body  == applyPayloadConfig(req.Model,
                     sanitizeToolNames(TargetPayload(auth, req, FALSE)))
        sent  == <<UpstreamRequest(creds, body)>>
    IN  IF creds.baseURL = <<>>
        THEN Failed(statusErr(StatusUnauthorized, <<"missing base URL">>))
        ELSE IF creds.apiKey = <<>>
        THEN Failed(statusErr(StatusUnauthorized, <<"missing API key">>))
        ELSE IF up.doErr
        THEN Outcome(<<PlainErr("do")>>, <<body>>, sent, FALSE, <<>>, FALSE)
        ELSE IF up.status < 200 \/ up.status >= 300
        THEN Outcome(<<statusErr(up.status, ReadAll(up))>>, <<body>>, sent, FALSE, <<>>, FALSE)
        ELSE IF up.readErr
        THEN Outcome(<<PlainErr("read")>>, <<body>>, sent, FALSE, <<>>, FALSE)
        ELSE Outcome(<<>>, <<body>>, sent, TRUE, <<TranslateNonStream(up.body)>>, FALSE)

\* executeStreamWithClaude up to the return: the goroutine that feeds the channel
\* starts after it
executeStreamWithClaude(auth, req, up) ==
    LET creds == crossProviderCreds(auth)
        body  == applyPayloadConfig(req.Model,
                     sanitizeToolNames(TargetPayload(auth, req, TRUE)))
        sent  == <<UpstreamRequest(creds, body)>>
    IN  IF creds.baseURL = <<>>
        THEN Failed(statusErr(StatusUnauthorized, <<"missing base URL">>))
        ELSE IF creds.apiKey = <<>>
        THEN Failed(statusErr(StatusUnauthorized, <<"missing API key">>))
        ELSE IF up.doErr
        THEN Outcome(<<PlainErr("do")>>, <<body>>, sent, FALSE, <<>>, FALSE)
        ELSE IF up.status < 200 \/ up.status >= 300
        THEN IF up.readErr
             THEN Outcome(<<PlainErr("read")>>, <<body>>, sent, FALSE, <<>>, FALSE)
             ELSE Outcome(<<statusErr(up.status, up.body)>>, <<body>>, sent, FALSE, <<>>, FALSE)
        ELSE Outcome(<<>>, <<body>>, sent, FALSE, <<>>, TRUE)

\* countTokensWithClaude: nothing is sent, the target payload is counted
countTokensWithClaude(auth, req) ==
    Outcome(<<>>, <<TargetPayload(auth, req, FALSE)>>, <<>>, TRUE, <<<<"usage">>>>, FALSE)

Unsupported == Failed(PlainErr("unsupported provider type"))

Call(op, providerType, auth, req, up, out) ==
    [op |-> op, providerType |-> providerType, auth |-> auth, req |-> req, up |-> up,
     out |-> out]

ExecUnchanged ==
    UNCHANGED <<envVars, watcherVars, procVars, dispatchVars, seqVars, snapVars,
                debounceVars, lifted, restVars>>

Execute(providerType, auth, req, up) ==
    /\ exec = <<>>
    /\ exec' = <<Call("Execute", providerType, auth, req, up,
                      IF providerType = "claude"
                      THEN executeWithClaude(auth, req, up) ELSE Unsupported)>>
    /\ ExecUnchanged

ExecuteStream(providerType, auth, req, up) ==
    /\ exec = <<>>
    /\ exec' = <<Call("ExecuteStream", providerType, auth, req, up,
                      IF providerType = "claude"
                      THEN executeStreamWithClaude(auth, req, up) ELSE Unsupported)>>
    /\ ExecUnchanged

CountTokens(providerType, auth, req, up) ==
    /\ exec = <<>>
    /\ exec' = <<Call("CountTokens", providerType, auth, req, up,
                      IF providerType = "claude"
                      THEN countTokensWithClaude(auth, req) ELSE Unsupported)>>
    /\ ExecUnchanged

(***************************************************************************)
(* One call of the executor, on every credential, request and upstream.    *)
(***************************************************************************)
ProviderTypes == {"claude", "gemini"}

AttrValues == {<<>>, <<" ">>, <<" ", "v", " ">>}

BaseURLs == {<<>>, <<" ">>, <<"u", "/">>}

ExecAuths ==
    {<<>>, <<[Attributes |-> EmptyMap]>>}
    \cup {<<[Attributes |-> (<<"api_key">> :> k) @@ (<<"base_url">> :> u)
                            @@ (<<"model_name">> :> m)]>> :
             k \in AttrValues, u \in BaseURLs, m \in AttrValues}

ExecPayloads ==
    {Request(instr, input) :
        instr \in {<<>>, <<"i1">>},
        input \in {<<>>,
                   <<Item(<<"SYSTEM">>, "input_text", <<"s1">>),
                     Item(<<"user">>, "input_text", <<"u1">>)>>,
                   <<Item(<<"assistant">>, "output_text", <<"a1">>)>>}}

ExecRequests ==
    {[Model |-> model, Payload |-> payload] :
        model \in {<<>>, <<"gpt">>}, payload \in ExecPayloads}

UpstreamBody == <<"e1", "e2">>

Upstreams ==
    {[doErr |-> doErr, status |-> status, body |-> UpstreamBody, readErr |-> readErr,
      got |-> got] :
        doErr \in BOOLEAN, status \in {200, 204, 300, 404, 500}, readErr \in BOOLEAN,
        got \in 0..(Len(UpstreamBody) - 1)}

\* CountTokens talks to no upstream
NoUpstream == [doErr |-> FALSE, status |-> 200, body |-> <<>>, readErr |-> FALSE, got |-> 0]

\* one call in a behaviour: an executor that has returned takes no further step
NextExec ==
    \/ /\ exec = <<>>
       /\ \E providerType \in ProviderTypes, auth \in ExecAuths, req \in ExecRequests,
             up \in Upstreams : Execute(providerType, auth, req, up)
    \/ /\ exec = <<>>
       /\ \E providerType \in ProviderTypes, auth \in ExecAuths, req \in ExecRequests,
             up \in Upstreams : ExecuteStream(providerType, auth, req, up)
    \/ /\ exec = <<>>
       /\ \E providerType \in ProviderTypes, auth \in ExecAuths, req \in ExecRequests :
             CountTokens(providerType, auth, req, NoUpstream)

SpecExec == Init /\ [][NextExec]_vars

\* the attribute of a credential, empty for a nil credential or a missing key
AttrOf(auth, key) == IF auth = <<>> THEN <<>> ELSE MapGet(auth[1].Attributes, key)

\* the credential is nil, has no attributes, or its trimmed api_key or base_url is empty
LacksCreds(auth) ==
    \/ auth = <<>>
    \/ auth[1].Attributes = EmptyMap
    \/ TrimSpace(AttrOf(auth, <<"api_key">>)) = <<>>
    \/ TrimSpace(AttrOf(auth, <<"base_url">>)) = <<>>

IsStatusErr(out, code) ==
    /\ out.err # <<>>
    /\ out.err[1].kind = "status"
    /\ out.err[1].code = code

NothingSent(out) == out.body = <<>> /\ out.sent = <<>> /\ ~out.channel

Requests == {"Execute", "ExecuteStream"}

\* C16: Execute and ExecuteStream fail with a 401 status error, build and send no
\* upstream request and return no channel, whenever the credential is nil, has no
\* attributes, or its trimmed api_key or base_url is empty.
C16_Unauthenticated ==
    \A i \in 1..Len(exec) :
        (exec[i].op \in Requests /\ LacksCreds(exec[i].auth)) =>
            IsStatusErr(exec[i].out, StatusUnauthorized) /\ NothingSent(exec[i].out)

\* C16, amended: an executor of provider type claude fails so; an executor of any
\* other provider type fails with the unsupported-provider-type error, which carries
\* no status; in both cases nothing is built or sent and no channel is returned.
C16_UnauthenticatedClaude ==
    \A i \in 1..Len(exec) :
        (exec[i].op \in Requests /\ LacksCreds(exec[i].auth)) =>
            /\ NothingSent(exec[i].out)
            /\ exec[i].providerType = "claude" =>
                   IsStatusErr(exec[i].out, StatusUnauthorized)
            /\ exec[i].providerType # "claude" =>
                   /\ exec[i].out.err # <<>>
                   /\ exec[i].out.err[1].kind = "unsupported provider type"

\* ExecuteStream has refused a credential whose api_key is blank and whose base_url
\* is not
C16_BlankKeyRefused ==
    /\ exec # <<>>
    /\ exec[1].op = "ExecuteStream"
    /\ exec[1].providerType = "claude"
    /\ AttrOf(exec[1].auth, <<"api_key">>) = <<" ">>
    /\ TrimSpace(AttrOf(exec[1].auth, <<"base_url">>)) # <<>>
    /\ IsStatusErr(exec[1].out, StatusUnauthorized)

\* the upstream has answered the call with a status outside 200..299
AnsweredNon2xx(call) ==
    /\ call.op \in Requests
    /\ call.out.sent # <<>>
    /\ ~call.up.doErr
    /\ (call.up.status < 200 \/ call.up.status >= 300)

NothingReturned(out) == ~out.translated /\ out.payload = <<>> /\ ~out.channel

\* C17: when the upstream answers with a status outside 200..299, Execute and
\* ExecuteStream return an error that carries that status and the upstream body
\* unchanged; no translator runs, no payload is returned, no channel is opened.
C17_ErrorPassedThrough ==
    \A i \in 1..Len(exec) :
        AnsweredNon2xx(exec[i]) =>
            /\ IsStatusErr(exec[i].out, exec[i].up.status)
            /\ exec[i].out.err[1].msg = exec[i].up.body
            /\ NothingReturned(exec[i].out)

\* C17, amended: so it is when the body is read to its end; when the read fails,
\* Execute returns the status with the bytes read before the failure and
\* ExecuteStream returns the read error, which carries no status; in every case no
\* translator runs, no payload is returned and no channel is opened.
C17_ErrorPassedThroughWhenRead ==
    \A i \in 1..Len(exec) :
        AnsweredNon2xx(exec[i]) =>
            /\ NothingReturned(exec[i].out)
            /\ ~exec[i].up.readErr =>
                   /\ IsStatusErr(exec[i].out, exec[i].up.status)
                   /\ exec[i].out.err[1].msg = exec[i].up.body
            /\ (exec[i].up.readErr /\ exec[i].op = "Execute") =>
                   /\ IsStatusErr(exec[i].out, exec[i].up.status)
                   /\ exec[i].out.err[1].msg = SubSeq(exec[i].up.body, 1, exec[i].up.got)
            /\ (exec[i].up.readErr /\ exec[i].op = "ExecuteStream") =>
                   /\ exec[i].out.err # <<>>
                   /\ exec[i].out.err[1].kind = "read"

\* ExecuteStream has returned the 404 of the upstream with its whole body
C17_NotFoundPassed ==
    /\ exec # <<>>
    /\ exec[1].op = "ExecuteStream"
    /\ AnsweredNon2xx(exec[1])
    /\ ~exec[1].up.readErr
    /\ IsStatusErr(exec[1].out, 404)
    /\ exec[1].out.err[1].msg = UpstreamBody

\* the payload for the upstream: the one sent, or the one counted by CountTokens
UpstreamPayload(out) == IF out.sent # <<>> THEN <<out.sent[1].body>> ELSE out.body

\* the model_name attribute of the credential, trimmed
ModelName(auth) == TrimSpace(AttrOf(auth, <<"model_name">>))

\* C18: the model of the payload for the upstream is the model_name attribute of the
\* credential when that is set, and the requested model otherwise, for Execute,
\* ExecuteStream and CountTokens.
C18_ModelResolved ==
    \A i \in 1..Len(exec) :
        \A j \in 1..Len(UpstreamPayload(exec[i].out)) :
            UpstreamPayload(exec[i].out)[j]["model"]
                = JStr(IF ModelName(exec[i].auth) # <<>>
                       THEN ModelName(exec[i].auth) ELSE exec[i].req.Model)

\* C18, amended: the model is the trimmed model_name when that is set and the
\* requested model is not empty, and the requested model otherwise.
C18_ModelResolvedForNamedRequest ==
    \A i \in 1..Len(exec) :
        \A j \in 1..Len(UpstreamPayload(exec[i].out)) :
            UpstreamPayload(exec[i].out)[j]["model"]
                = JStr(IF ModelName(exec[i].auth) # <<>> /\ exec[i].req.Model # <<>>
                       THEN ModelName(exec[i].auth) ELSE exec[i].req.Model)

\* Execute has sent the trimmed model_name in place of the requested model
C18_AliasReplaced ==
    /\ exec # <<>>
    /\ exec[1].op = "Execute"
    /\ exec[1].req.Model = <<"gpt">>
    /\ AttrOf(exec[1].auth, <<"model_name">>) = <<" ", "v", " ">>
    /\ exec[1].out.sent # <<>>
    /\ exec[1].out.sent[1].body["model"] = JStr(<<"v">>)

(***************************************************************************)
(* extractSystemToTopLevel as a function: one payload, lifted.             *)
(***************************************************************************)
LiftMessages ==
    {Message("system", StringContent(<<"s1">>)),
     Message("system", StringContent(<<>>)),
     Message("system", ArrayContent(<<TextPart(<<"s2">>), Part("image", <<>>)>>)),
     Message("system", ArrayContent(<<Part("image", <<>>)>>)),
     Message("system", MissingContent),
     Message("user", StringContent(<<"u1">>)),
     Message("assistant", ArrayContent(<<TextPart(<<"a1">>)>>))}

LiftMessageLists ==
    {<<>>}
    \cup {<<m>> : m \in LiftMessages}
    \cup {<<m1, m2>> : m1, m2 \in LiftMessages}

LiftBodies ==
    {("model" :> JStr(<<"gpt">>)) @@ extra @@ messages :
        extra \in {EmptyMap, ("system" :> JArr(<<TextPart(<<"i1">>)>>))},
        messages \in {EmptyMap, ("messages" :> JStr(<<>>))}
                     \cup {("messages" :> JArr(list)) : list \in LiftMessageLists}}

LiftSystem(body) ==
    /\ lifted = <<>>
    /\ lifted' = <<[in |-> body, out |-> extractSystemToTopLevel(body)]>>
    /\ UNCHANGED <<envVars, watcherVars, procVars, dispatchVars, seqVars, snapVars,
                   debounceVars, exec, restVars>>

NextLift == lifted = <<>> /\ \E body \in LiftBodies : LiftSystem(body)

SpecLift == Init /\ [][NextLift]_vars

\* C19: system lifting removes every system message: the messages array of the
\* lifted payload, when the payload has one, holds no message of role system.
C19_NoSystemMessage ==
    \A i \in 1..Len(lifted) :
        IsArray(lifted[i].in, "messages") =>
            (IsArray(lifted[i].out, "messages") =>
                 \A j \in 1..Len(lifted[i].out["messages"].v) :
                     lifted[i].out["messages"].v[j].role # "system")

\* the entries of the top-level system array, <<>> when there is none
SystemOf(body) == IF IsArray(body, "system") THEN body["system"].v ELSE <<>>

\* C20: system lifting appends: the top-level system array of the lifted payload
\* is the one the payload had followed by the text of the lifted system messages.
C20_LiftAppends ==
    \A i \in 1..Len(lifted) :
        IsArray(lifted[i].in, "messages") =>
            SystemOf(lifted[i].out)
                = SystemOf(lifted[i].in) \o CollectSystemParts(lifted[i].in["messages"].v)

\* the messages of the payload that are not of role system, in their order
NonSystemMessages(body) ==
    SelectSeq(body["messages"].v, LAMBDA msg : msg.role # "system")

\* C37: extractSystemToTopLevel keeps messages a JSON array that holds exactly
\* the non-system messages of the input in their order; when every message is
\* of role system the result is the empty array, never null or missing.
C37_MessagesStayArray ==
    \A i \in 1..Len(lifted) :
        IsArray(lifted[i].in, "messages") =>
            /\ "messages" \in DOMAIN lifted[i].out
            /\ lifted[i].out["messages"] = JArr(NonSystemMessages(lifted[i].in))

(***************************************************************************)
(* The reader goroutine of executeStreamWithClaude and the consumer of its *)
(* channel.  The channel is unbuffered: a send is one step with the        *)
(* receive.  A line is an atom; the translator keeps the number of lines   *)
(* it has seen in its param.                                               *)
(***************************************************************************)
StreamChunk(payload) == [Payload |-> <<payload>>, Err |-> FALSE]

ErrChunk == [Payload |-> <<>>, Err |-> TRUE]

Event(name, seq) == [event |-> name, seq |-> seq]

\* TranslateStream: the events of one line, and param after it
TranslateStream(param, line) ==
    [chunks |-> CASE line = "ping"  -> <<>>
                  [] line = "delta" -> <<Event("delta", param)>>
                  [] OTHER          -> <<Event("stop", param), Event("completed", param)>>,
     param  |-> param + 1]

\* the events of a whole body, translated line by line from param on
RECURSIVE TranslateLines(_, _)
TranslateLines(param, lines) ==
    IF lines = <<>> THEN <<>>
    ELSE TranslateStream(param, Head(lines)).chunks
             \o TranslateLines(TranslateStream(param, Head(lines)).param, Tail(lines))

\* the order in which the deferred calls run, the wrong way round
DeferredReversed == <<"closeChan", "closeBody", "done">>

\* the deferred calls run last registered first: Body.Close, then close(out)
Deferred == <<"closeBody", "closeChan", "done">>

\* the send of a loop over chunks that takes them from the end
NextChunkLast(chunks) == chunks[Len(chunks)]

\* out <- chunks[i]: the chunk the loop sends next
NextChunk(chunks) == Head(chunks)

StreamUnchanged ==
    UNCHANGED <<envVars, watcherVars, procVars, dispatchVars, seqVars, snapVars,
                debounceVars, execVars, convVars, ampVars, loopVars>>

\* the upstream answered 2xx: out is made and the goroutine started
StartStream(lines, end) ==
    /\ reader.pc = "idle"
    /\ upstream' = [all |-> lines, lines |-> lines, end |-> end, open |-> TRUE]
    /\ reader' = [reader EXCEPT !.pc = "scan"]
    /\ UNCHANGED <<ctxDone, received, outClosed, receiving>>
    /\ StreamUnchanged

\* scanner.Scan() gives a line, then ctx.Err() is looked at and the line translated
ScanLine ==
    /\ reader.pc = "scan"
    /\ upstream.lines # <<>>
    /\ LET t == TranslateStream(reader.param, Head(upstream.lines))
       IN  /\ upstream' = [upstream EXCEPT !.lines = Tail(upstream.lines)]
           /\ reader' = IF ctxDone
                        THEN [reader EXCEPT !.pc = "after"]
                        ELSE [reader EXCEPT !.pc = IF t.chunks = <<>> THEN "scan" ELSE "send",
                                            !.chunks = t.chunks,
                                            !.param = t.param]
    /\ UNCHANGED <<ctxDone, received, outClosed, receiving>>
    /\ StreamUnchanged

\* scanner.Scan() returns false: the body ended, or a read failed; a read of the
\* body of a request whose ctx is cancelled fails
ScanEnd ==
    /\ reader.pc = "scan"
    /\ \/ /\ upstream.lines = <<>>
          /\ reader' = [reader EXCEPT !.pc = "after", !.errScan = (upstream.end = "err")]
       \/ /\ ctxDone
          /\ reader' = [reader EXCEPT !.pc = "after", !.errScan = TRUE]
    /\ UNCHANGED <<upstream, ctxDone, received, outClosed, receiving>>
    /\ StreamUnchanged

\* out <- StreamChunk{Payload: chunks[i]}, received by the consumer
SendChunk ==
    /\ reader.pc = "send"
    /\ receiving
    /\ received' = Append(received, StreamChunk(NextChunk(reader.chunks)))
    /\ reader' = [reader EXCEPT !.chunks = Tail(reader.chunks),
                                !.pc = IF Len(reader.chunks) = 1 THEN "scan" ELSE "send"]
    /\ UNCHANGED <<upstream, ctxDone, outClosed, receiving>>
    /\ StreamUnchanged

\* after the loop: scanner.Err()
AfterLoop ==
    /\ reader.pc = "after"
    /\ reader' = [reader EXCEPT !.pc = IF reader.errScan THEN "senderr" ELSE Deferred[1]]
    /\ UNCHANGED <<upstream, ctxDone, received, outClosed, receiving>>
    /\ StreamUnchanged

\* out <- StreamChunk{Err: errScan}, received by the consumer
SendErr ==
    /\ reader.pc = "senderr"
    /\ receiving
    /\ received' = Append(received, ErrChunk)
    /\ reader' = [reader EXCEPT !.pc = Deferred[1]]
    /\ UNCHANGED <<upstream, ctxDone, outClosed, receiving>>
    /\ StreamUnchanged

\* the deferred calls, one step each
RunDeferred ==
    \E i \in 1..(Len(Deferred) - 1) :
        /\ reader.pc = Deferred[i]
        /\ reader' = [reader EXCEPT !.pc = Deferred[i + 1]]
        /\ upstream' = IF Deferred[i] = "closeBody"
                       THEN [upstream EXCEPT !.open = FALSE] ELSE upstream
        /\ outClosed' = IF Deferred[i] = "closeChan" THEN TRUE ELSE outClosed
        /\ UNCHANGED <<ctxDone, received, receiving>>
        /\ StreamUnchanged

\* the client goes away: ctx is cancelled
Cancel ==
    /\ reader.pc # "idle"
    /\ ~ctxDone
    /\ ctxDone' = TRUE
    /\ UNCHANGED <<upstream, reader, received, outClosed, receiving>>
    /\ StreamUnchanged

\* a consumer that cancelled may stop receiving from the channel
StopReceiving ==
    /\ ctxDone
    /\ receiving
    /\ receiving' = FALSE
    /\ UNCHANGED <<upstream, ctxDone, reader, received, outClosed>>
    /\ StreamUnchanged

StreamLines == {"ping", "delta", "stop"}

StreamBodies ==
    UNION {[1..n -> StreamLines] : n \in 0..MaxLines}

ReaderNext == ScanLine \/ ScanEnd \/ SendChunk \/ AfterLoop \/ SendErr \/ RunDeferred

NextStream ==
    \/ \E lines \in StreamBodies, end \in {"eof", "err"} : StartStream(lines, end)
    \/ ScanLine
    \/ ScanEnd
    \/ SendChunk
    \/ AfterLoop
    \/ SendErr
    \/ RunDeferred
    \/ Cancel
    \/ StopReceiving

SpecStream == Init /\ [][NextStream]_vars

\* the goroutine runs whenever it can, and so does the send to a consumer that receives
SpecStreamLive == SpecStream /\ WF_vars(ReaderNext)

\* the payloads the consumer received, in the order of their receipt
PayloadsOf(chunks) ==
    LET payloads == SelectSeq(chunks, LAMBDA c : ~c.Err)
    IN  [i \in 1..Len(payloads) |-> payloads[i].Payload[1]]

\* C21: the payloads sent on the channel, followed by those of the line in hand that
\* are still to be sent, are the translator's outputs for the upstream lines taken
\* so far, in upstream order; a stream that ends without cancellation took every line.
C21_StreamOrder ==
    /\ reader.param <= Len(upstream.all)
    /\ PayloadsOf(received) \o reader.chunks
           = TranslateLines(0, SubSeq(upstream.all, 1, reader.param))
    /\ (reader.pc = "done" /\ ~ctxDone) => reader.param = Len(upstream.all)

\* a stream of two lines that give three events has ended, all three delivered
C21_ThreeDelivered ==
    /\ reader.pc = "done"
    /\ ~ctxDone
    /\ upstream.all = <<"delta", "stop">>
    /\ Len(PayloadsOf(received)) = 3

\* C22: once ctx is cancelled during a stream, the reader goroutine eventually closes
\* the upstream body, closes the output channel and terminates, whatever the
\* consumer does.
C22_CancelCloses ==
    ctxDone ~> (reader.pc = "done" /\ ~upstream.open /\ outClosed)

\* C23: once ctx is cancelled, no further chunk is sent on the output channel.
C23_NoChunkAfterCancel ==
    [][ctxDone => received' = received]_vars

\* C24: the output channel is never closed while the upstream body is open.
C24_BodyClosedFirst ==
    outClosed => ~upstream.open

\* a cancelled stream has closed its channel
C24_ClosedAfterCancel ==
    /\ ctxDone
    /\ outClosed
    /\ ~upstream.open
    /\ upstream.all # <<>>

\* C25: a stream whose upstream closed the body without a byte has delivered a
\* terminal event when its channel is closed.
C25_EmptyStreamCompleted ==
    (/\ reader.pc # "idle"
     /\ upstream.all = <<>>
     /\ upstream.end = "eof"
     /\ ~ctxDone
     /\ outClosed)
        => \E i \in 1..Len(received) :
               /\ ~received[i].Err
               /\ received[i].Payload[1].event = "completed"

(***************************************************************************)
(* Calls of ConvertOpenAIResponsesRequestToClaude.  The package variables  *)
(* account, session and user are read and written without a lock: a call   *)
(* looks at a variable in one step and writes it in another.               *)
(***************************************************************************)
UUIDs == {<<"uuid1">>, <<"uuid2">>}

ToolIDs == {<<"toolu_1">>, <<"toolu_2">>}

ConvUnchanged ==
    UNCHANGED <<envVars, watcherVars, procVars, dispatchVars, seqVars, snapVars,
                debounceVars, execVars, streamVars, ampVars, loopVars>>

At(c, label) == conv[c].pc = label

Goto(c, label) == conv' = [conv EXCEPT ![c].pc = label]

\* the call is made
ConvBegin(c, model, request, stream) ==
    /\ At(c, "idle")
    /\ conv' = [conv EXCEPT ![c].pc = "account",
                            ![c].args = [model |-> model, request |-> request,
                                         stream |-> stream]]
    /\ UNCHANGED <<account, session, user>>
    /\ ConvUnchanged

\* if account == "", if session == "", if user == ""
ConvLook(c) ==
    /\ \/ At(c, "account") /\ Goto(c, IF account = <<>> THEN "setAccount" ELSE "session")
       \/ At(c, "session") /\ Goto(c, IF session = <<>> THEN "setSession" ELSE "user")
       \/ At(c, "user") /\ Goto(c, IF user = <<>> THEN "setUser" ELSE "build")
    /\ UNCHANGED <<account, session, user>>
    /\ ConvUnchanged

\* account = uuid.NewRandom().String()
ConvSetAccount(c, u) ==
    /\ At(c, "setAccount")
    /\ account' = u
    /\ Goto(c, "session")
    /\ UNCHANGED <<session, user>>
    /\ ConvUnchanged

\* session = uuid.NewRandom().String()
ConvSetSession(c, u) ==
    /\ At(c, "setSession")
    /\ session' = u
    /\ Goto(c, "user")
    /\ UNCHANGED <<account, user>>
    /\ ConvUnchanged

\* user = hex(sha256(account + session))
ConvSetUser(c) ==
    /\ At(c, "setUser")
    /\ user' = <<Sha256Hex(account \o session)>>
    /\ Goto(c, "build")
    /\ UNCHANGED <<account, session>>
    /\ ConvUnchanged

\* fmt.Sprintf("user_%s_account_%s_session_%s", user, account, session)
UserID == <<"user_">> \o user \o <<"_account_">> \o account \o <<"_session_">> \o session

\* the function_call items of a request that have no call_id
Generated(request) ==
    GeneratedBefore(request.input, Len(request.input) + 1)

\* the bytes of a JSON document, as opposed to text that is no JSON
JSONBytes(doc) == [json |-> TRUE, raw |-> <<>>, doc |-> doc]

\* the rest of the call, with the ids that genToolCallID draws
ConvBuild(c, ids) ==
    /\ At(c, "build")
    /\ Len(ids) = Generated(conv[c].args.request)
    /\ conv' = [conv EXCEPT
                   ![c].pc = "done",
                   ![c].out = <<JSONBytes(ConvertOpenAIResponsesRequestToClaude(
                                    [userID |-> UserID, toolIDs |-> ids],
                                    conv[c].args.model, conv[c].args.request,
                                    conv[c].args.stream))>>]
    /\ UNCHANGED <<account, session, user>>
    /\ ConvUnchanged

ConvModels == {<<"gpt">>}

\* contents of an input message
ConvContents ==
    {StringContent(<<"s1">>),
     ArrayContent(<<Part("input_text", <<"t1">>)>>),
     ArrayContent(<<Part("output_text", <<"t2">>)>>),
     ArrayContent(<<Part("input_text", <<>>), Part("input_image", <<"url">>)>>)}

ConvItemSet ==
    {InputItem(type, role, content, <<>>) :
        type \in {"", "message"},
        role \in {<<"system">>, <<"SYSTEM">>, <<"user">>, <<"assistant">>},
        content \in ConvContents}
    \cup {InputItem("function_call", <<>>, MissingContent, id) : id \in {<<>>, <<"call_1">>}}
    \cup {InputItem("function_call_output", <<>>, MissingContent, <<"call_1">>)}

\* the requests of a single call: malformed bytes, and up to two input items
ConvRequests ==
    {Malformed(<<"not json">>)}
    \cup {Request(instr, input) :
            instr \in {<<>>, <<"i1">>},
            input \in {<<>>} \cup {<<a>> : a \in ConvItemSet}
                      \cup {<<a, b>> : a, b \in ConvItemSet}}

\* one call of the converter, on every request
NextConv ==
    \/ /\ At(1, "idle")
       /\ \E model \in ConvModels, request \in ConvRequests, stream \in BOOLEAN :
              ConvBegin(1, model, request, stream)
    \/ ConvLook(1)
    \/ \E u \in UUIDs : ConvSetAccount(1, u)
    \/ \E u \in UUIDs : ConvSetSession(1, u)
    \/ ConvSetUser(1)
    \/ \E ids \in {<<>>} \cup {<<id>> : id \in ToolIDs} : ConvBuild(1, ids)

SpecConv == Init /\ [][NextConv]_vars

\* the requests of two calls
PairRequests ==
    {Request(<<>>, input) :
        input \in {<<Item(<<"user">>, "input_text", <<"t1">>)>>,
                   <<InputItem("function_call", <<>>, MissingContent, <<>>)>>}}

\* two calls of the converter, one after the other or at the same time
NextConvPair ==
    \/ \E c \in ConvCalls :
          /\ At(c, "idle")
          /\ \E model \in ConvModels, request \in PairRequests, stream \in BOOLEAN :
                 ConvBegin(c, model, request, stream)
    \/ \E c \in ConvCalls : ConvLook(c)
    \/ \E c \in ConvCalls, u \in UUIDs : ConvSetAccount(c, u)
    \/ \E c \in ConvCalls, u \in UUIDs : ConvSetSession(c, u)
    \/ \E c \in ConvCalls : ConvSetUser(c)
    \/ \E c \in ConvCalls, ids \in {<<>>} \cup {<<id>> : id \in ToolIDs} : ConvBuild(c, ids)

SpecConvPair == Init /\ [][NextConvPair]_vars

\* metadata.user_id of the request a finished call returned
UserIdOf(c) == conv[c].out[1].doc["metadata"].v

\* C38: every request converted within one process carries the same
\* metadata.user_id, and in that id the user component is the SHA-256 of the
\* id's own account and session components, also when the first calls of the
\* converter run at the same time.
C38_OneIdentity ==
    \A c, d \in ConvCalls :
        (At(c, "done") /\ At(d, "done")) =>
            /\ UserIdOf(c) = UserIdOf(d)
            /\ UserIdOf(c)[2] = Sha256Hex(<<UserIdOf(c)[4], UserIdOf(c)[6]>>)

\* C26: two calls of the converter with equal arguments return equal bytes.
C26_Pure ==
    \A c, d \in ConvCalls :
        (At(c, "done") /\ At(d, "done") /\ conv[c].args = conv[d].args)
            => conv[c].out = conv[d].out

\* C27: on a request body that is no JSON the converter returns its input bytes.
C27_MalformedUnchanged ==
    \A c \in ConvCalls :
        (At(c, "done") /\ ~conv[c].args.request.json) =>
            /\ ~conv[c].out[1].json
            /\ conv[c].out[1].raw = conv[c].args.request.raw

\* the texts of an input item: its string content, or the texts of its parts
TextsOfItem(item) ==
    IF item.content.t = "string"
    THEN IF item.content.str # <<>> THEN <<item.content.str>> ELSE <<>>
    ELSE LET parts == SelectSeq(PartsOf(item.content), LAMBDA part : part.text # <<>>)
         IN  [i \in 1..Len(parts) |-> parts[i].text]

RECURSIVE SystemTexts(_)
\* instructions aside, the texts of the input items of role system, in input order
SystemTexts(items) ==
    IF items = <<>> THEN <<>>
    ELSE (IF EqualFold(Head(items).role, <<"system">>) THEN TextsOfItem(Head(items)) ELSE <<>>)
         \o SystemTexts(Tail(items))

\* the text a message carries: its string, or the texts of its parts
TextsOfMessage(msg) ==
    IF msg.content.t = "string" THEN <<msg.content.str>>
    ELSE [i \in 1..Len(msg.content.parts) |-> msg.content.parts[i].text]

\* the message comes from the input item
ComesFrom(msg, item) ==
    /\ ~EqualFold(item.role, <<"system">>)
    /\ \/ /\ item.type \in {"", "message"}
          /\ item.content.t = "array"
          /\ TextsOfMessage(msg)
                 = [i \in 1..Len(item.content.parts) |-> item.content.parts[i].text]
       \/ /\ item.type = "function_call"
          /\ msg.content.t = "array"
          /\ msg.content.parts[1].type = "tool_use"
       \/ /\ item.type = "function_call_output"
          /\ msg.content.t = "array"
          /\ msg.content.parts[1].type = "tool_result"

\* C28: every message of the converter's output has role user or assistant; the
\* top-level system array is the text of instructions followed by the texts of the
\* input items of role system, in input order; the messages come from the other
\* input items, in input order.
C28_SystemLifted ==
    \A c \in ConvCalls :
        (At(c, "done") /\ conv[c].args.request.json) =>
            LET request  == conv[c].args.request
                doc      == conv[c].out[1].doc
                messages == doc["messages"].v
                texts    == (IF request.instructions # <<>>
                             THEN <<request.instructions>> ELSE <<>>)
                            \o SystemTexts(request.input)
            IN  /\ \A i \in 1..Len(messages) : messages[i].role \in {"user", "assistant"}
                /\ SystemOf(doc) = [i \in 1..Len(texts) |-> TextPart(texts[i])]
                /\ \E f \in [1..Len(messages) -> 1..Len(request.input)] :
                       /\ \A i, j \in 1..Len(messages) : i < j => f[i] < f[j]
                       /\ \A i \in 1..Len(messages) : ComesFrom(messages[i], request.input[f[i]])

(***************************************************************************)
(* The Amp module and FallbackHandler.WrapHandler.  A request is its body, *)
(* the gin parameters action and path, and whether the read of the body    *)
(* fails and after how many bytes.                                         *)
(***************************************************************************)
AmpConfig(claude, url, restrictToLocalhost) ==
    [ClaudeKey |-> claude, AmpUpstreamURL |-> url,
     AmpRestrictManagementToLocalhost |-> restrictToLocalhost]

\* a request body: text that is no JSON object, or an object with or without a
\* model string
Body(json, model) == [json |-> json, model |-> model]

\* the position of the first atom a of s, 0 when there is none
IndexOf(s, a) ==
    IF \E i \in 1..Len(s) : s[i] = a
    THEN CHOOSE i \in 1..Len(s) : s[i] = a /\ \A j \in 1..(i - 1) : s[j] # a
    ELSE 0

extractModelFromRequest(req) ==
    IF req.body.json /\ req.body.model # <<>>
    THEN req.body.model[1]
    ELSE IF req.action # <<>> /\ Split(req.action, ":")[1] # <<>>
    THEN Split(req.action, ":")[1]
    ELSE IF req.path # <<>> /\ IndexOf(req.path, "/models/") > 0
    THEN LET modelPart == SubSeq(req.path, IndexOf(req.path, "/models/") + 1, Len(req.path))
         IN  IF IndexOf(modelPart, ":") > 1
             THEN SubSeq(modelPart, 1, IndexOf(modelPart, ":") - 1)
             ELSE <<>>
    ELSE <<>>

\* util.NormalizeGeminiThinkingModel: the model without its thinking suffix
NormalizeGeminiThinkingModel(model) ==
    IF model # <<>> /\ model[Len(model)] = "-thinking"
    THEN SubSeq(model, 1, Len(model) - 1) ELSE model

\* the models of the registry
RegistryModels == {<<"g", "emini">>}

\* util.GetProviderName: the providers of the registry for the model
GetProviderName(model) == IF model \in RegistryModels THEN {"gemini"} ELSE {}

\* a hasClaudeAPIKeyAlias that compares the names as they are written
hasAliasCaseSensitive(getConfig, modelName) ==
    IF getConfig = <<>> \/ Len(getConfig[1].ClaudeKey) = 0 THEN FALSE
    ELSE LET model == TrimSpace(modelName)
         IN  /\ model # <<>>
             /\ \E i \in 1..Len(getConfig[1].ClaudeKey) :
                    LET ck == getConfig[1].ClaudeKey[i]
                    IN  IF Len(ck.Models) > 0
                        THEN \E j \in 1..Len(ck.Models) :
                                 \/ TrimSpace(ck.Models[j].Alias) # <<>>
                                    /\ TrimSpace(ck.Models[j].Alias) = model
                                 \/ TrimSpace(ck.Models[j].Name) # <<>>
                                    /\ TrimSpace(ck.Models[j].Name) = model
                        ELSE /\ TrimSpace(ck.BaseURL) # <<>>
                             /\ TrimSpace(ck.APIKey) # <<>>
                             /\ HasPrefix(model, <<"c", "laude-">>)

\* getConfig is <<>> for a config that is nil and <<cfg>> otherwise
hasClaudeAPIKeyAlias(getConfig, modelName) ==
    IF getConfig = <<>> \/ Len(getConfig[1].ClaudeKey) = 0 THEN FALSE
    ELSE LET modelLower == ToLower(TrimSpace(modelName))
         IN  /\ modelLower # <<>>
             /\ \E i \in 1..Len(getConfig[1].ClaudeKey) :
                    LET ck == getConfig[1].ClaudeKey[i]
                    IN  IF Len(ck.Models) > 0
                        THEN \E j \in 1..Len(ck.Models) :
                                 \/ ToLower(TrimSpace(ck.Models[j].Alias)) # <<>>
                                    /\ ToLower(TrimSpace(ck.Models[j].Alias)) = modelLower
                                 \/ ToLower(TrimSpace(ck.Models[j].Name)) # <<>>
                                    /\ ToLower(TrimSpace(ck.Models[j].Name)) = modelLower
                        ELSE /\ TrimSpace(ck.BaseURL) # <<>>
                             /\ TrimSpace(ck.APIKey) # <<>>
                             /\ HasPrefix(modelLower, <<"c", "laude-">>)

\* what the invoked party reads: the body from its first byte, or what is left of a
\* body whose read failed
Restored(req) == [body |-> req.body, from |-> 0, failed |-> FALSE]

Unrestored(req) == [body |-> req.body, from |-> req.got, failed |-> TRUE]

\* the function that WrapHandler returns, on one request; the filter of the
\* Anthropic-Beta header leaves the body alone
WrapHandler(req, getConfig, proxy) ==
    LET modelName == extractModelFromRequest(req)
        providers == GetProviderName(NormalizeGeminiThinkingModel(modelName))
        local     == providers # {} \/ hasClaudeAPIKeyAlias(getConfig, modelName)
    IN  IF req.readErr
        THEN [invoked |-> {"handler"}, reads |-> Unrestored(req)]
        ELSE IF modelName = <<>>
        THEN [invoked |-> {"handler"}, reads |-> Restored(req)]
        ELSE IF ~local /\ proxy
        THEN [invoked |-> {"proxy"}, reads |-> Restored(req)]
        ELSE [invoked |-> {"handler"}, reads |-> Restored(req)]

(***************************************************************************)
(* The routes of the module.  A request carries its route, its method, the *)
(* RemoteAddr of its connection, its X-Forwarded-For header and whether    *)
(* the client-auth middleware lets it pass.                                *)
(***************************************************************************)
\* net.SplitHostPort: the host in front of the last colon, brackets removed
SplitHostPort(hostport) ==
    LET n    == Len(hostport)
        host == SubSeq(hostport, 1, n - 2)
    IN  IF n < 2 \/ hostport[n - 1] # ":"
        THEN [err |-> TRUE, host |-> <<>>]                    \* missing port
        ELSE IF host # <<>> /\ Head(host) = "["
        THEN IF host[Len(host)] = "]"
             THEN [err |-> FALSE, host |-> SubSeq(host, 2, Len(host) - 1)]
             ELSE [err |-> TRUE, host |-> <<>>]               \* missing ']'
        ELSE IF \E i \in 1..Len(host) : host[i] = ":"
        THEN [err |-> TRUE, host |-> <<>>]                    \* too many colons
        ELSE [err |-> FALSE, host |-> host]

Octets == {"0", "1", "5", "10", "127"}

IPv6Addrs == {<<"::1">>, <<"fe80::1">>}

\* net.ParseIP: <<>> for nil
ParseIP(host) ==
    IF /\ Len(host) = 7
       /\ \A i \in {2, 4, 6} : host[i] = "."
       /\ \A i \in {1, 3, 5, 7} : host[i] \in Octets
    THEN <<[v4 |-> TRUE, addr |-> host]>>
    ELSE IF host \in IPv6Addrs
    THEN <<[v4 |-> FALSE, addr |-> host]>>
    ELSE <<>>

\* net.IP.IsLoopback: 127.0.0.0/8 and ::1
IsLoopback(ip) == IF ip.v4 THEN ip.addr[1] = "127" ELSE ip.addr = <<"::1">>

\* a middleware is the condition under which it calls c.Next()
noCORSMiddleware(req) == req.method # "OPTIONS"

\* a restriction that trusts gin's ClientIP, which prefers X-Forwarded-For
localhostByClientIP(req) ==
    LET sp   == SplitHostPort(req.remoteAddr)
        host == IF req.xff # <<>> THEN req.xff
                ELSE IF sp.err THEN req.remoteAddr ELSE sp.host
        ip   == ParseIP(host)
    IN  ip # <<>> /\ IsLoopback(ip[1])

localhostOnlyMiddleware(req) ==
    LET sp   == SplitHostPort(req.remoteAddr)
        host == IF sp.err THEN req.remoteAddr ELSE sp.host
        ip   == ParseIP(host)
    IN  ip # <<>> /\ IsLoopback(ip[1])

\* the client-auth middleware handed to Register
auth(req) == req.authed

\* what became of a request: the middlewares that ran, the status of an abort
\* (0 for none), whether it passed a fallback wrapper, who was invoked and what
\* the invoked party reads
Aborted(req, chain, status) ==
    [chain |-> chain, status |-> status, wrapped |-> FALSE, invoked |-> {},
     reads |-> Restored(req)]

Direct(req, chain, who) ==
    [chain |-> chain, status |-> 0, wrapped |-> FALSE, invoked |-> {who},
     reads |-> Restored(req)]

Wrapped(req, chain, getConfig, proxy) ==
    [chain |-> chain, status |-> 0, wrapped |-> TRUE,
     invoked |-> WrapHandler(req, getConfig, proxy).invoked,
     reads |-> WrapHandler(req, getConfig, proxy).reads]

\* the handler of /provider/google/v1beta1/*path
geminiV1Beta1(req, chain, proxy) ==
    LET at        == IndexOf(req.path, "/models/")
        whole     == SubSeq(req.path, at + 1, Len(req.path))
        modelPart == IF IndexOf(whole, ":") > 1
                     THEN SubSeq(whole, 1, IndexOf(whole, ":") - 1) ELSE whole
    IN  IF /\ req.method = "POST"
           /\ at > 0
           /\ modelPart # <<>>
           /\ GetProviderName(NormalizeGeminiThinkingModel(modelPart)) # {}
        THEN Wrapped(req, chain, <<>>, proxy)       \* NewFallbackHandler: no getConfig
        ELSE Direct(req, chain, "proxy")

\* the routes of the /api group: noCORS, the localhost restriction when
\* configured, then the proxy handler or the v1beta1 bridge
registerManagementRoutes(req, proxy, restrictToLocalhost) ==
    IF ~noCORSMiddleware(req)
    THEN Aborted(req, <<"noCORS">>, 403)
    ELSE IF restrictToLocalhost /\ ~localhostOnlyMiddleware(req)
    THEN Aborted(req, <<"noCORS", "localhostOnly">>, 403)
    ELSE LET chain == IF restrictToLocalhost THEN <<"noCORS", "localhostOnly">>
                      ELSE <<"noCORS">>
         IN  IF req.route = "bridge"
             THEN geminiV1Beta1(req, chain, proxy)
             ELSE Direct(req, chain, "proxy")

\* the routes of the /api/provider group: auth, then the models handler or a
\* wrapped provider handler
registerProviderAliases(req, getConfig, proxy) ==
    IF ~auth(req)
    THEN Aborted(req, <<"auth">>, 401)
    ELSE IF req.route = "models"
    THEN Direct(req, <<"auth">>, "handler")
    ELSE Wrapped(req, <<"auth">>, getConfig, proxy)

ProviderRoutes == {"models", "alias"}

ManagementRoutes == {"management", "bridge"}

\* the engine on one request; the management routes exist once Register has
\* created the proxy
Engine(req, getConfig, proxy, restrictToLocalhost) ==
    IF req.route \in ProviderRoutes
    THEN registerProviderAliases(req, getConfig, proxy)
    ELSE IF proxy
    THEN registerManagementRoutes(req, proxy, restrictToLocalhost)
    ELSE Aborted(req, <<>>, 404)

AmpUnchanged ==
    UNCHANGED <<envVars, watcherVars, procVars, dispatchVars, seqVars, snapVars,
                debounceVars, execVars, streamVars, convVars, loopVars>>

\* Register: the config is kept; the first call registers the routes and, when an
\* upstream URL is configured, creates the proxy and registers the management
\* routes with the restriction of that config
Register(cfg, created) ==
    /\ ampCfg' = <<cfg>>
    /\ registered' = TRUE
    /\ ampProxy' = IF registered THEN ampProxy
                   ELSE TrimSpace(cfg.AmpUpstreamURL) # <<>> /\ created
    /\ restrict' = IF registered THEN restrict
                   ELSE /\ TrimSpace(cfg.AmpUpstreamURL) # <<>>
                        /\ created
                        /\ cfg.AmpRestrictManagementToLocalhost
    /\ served' = <<>>
    /\ AmpUnchanged

OnConfigUpdated(cfg) ==
    /\ ampCfg' = <<cfg>>
    /\ served' = <<>>
    /\ UNCHANGED <<ampProxy, registered, restrict>>
    /\ AmpUnchanged

\* a request through the engine
ServeRequest(req) ==
    /\ registered
    /\ served' = <<[req |-> req, did |-> Engine(req, ampCfg, ampProxy, restrict)]>>
    /\ UNCHANGED <<ampCfg, ampProxy, registered, restrict>>
    /\ AmpUnchanged

ClaudeX == <<"c", "laude-", "x">>

Sonnet == <<"s", "onnet">>

AmpClaudeKeys ==
    {<<>>,
     <<KeyEntry(<<"k1">>, <<"u">>, <<>>, <<Model(ClaudeX, Sonnet)>>, <<>>)>>,
     <<KeyEntry(<<"k1">>, <<"u">>, <<>>, <<Model(<<>>, <<" ">> \o Sonnet)>>, <<>>)>>,
     <<KeyEntry(<<"k1">>, <<"u">>, <<>>, <<>>, <<>>)>>,
     <<KeyEntry(<<"k1">>, <<>>, <<>>, <<>>, <<>>)>>}

AmpConfigs ==
    {AmpConfig(claude, <<>>, FALSE) : claude \in AmpClaudeKeys}
        \cup {AmpConfig(claude, <<"https://amp">>, r) : claude \in AmpClaudeKeys, r \in BOOLEAN}

AmpModels ==
    {<<>>, <<" ">>, <<"g", "emini">>, <<"g", "emini", "-thinking">>, ClaudeX,
     <<"C", "laude-", "x", " ">>, <<"c", "laude-", "y">>, Sonnet, <<"o", "ther">>}

AmpBodies ==
    {Body(FALSE, <<>>), Body(TRUE, <<>>)} \cup {Body(TRUE, <<m>>) : m \in AmpModels}

Loopback4 == <<"127", ".", "0", ".", "0", ".", "1">>

Remote4 == <<"10", ".", "0", ".", "0", ".", "5">>

RemoteAddrs ==
    {Loopback4 \o <<":", "5000">>,
     <<"127", ".", "5", ".", "0", ".", "1", ":", "5000">>,
     Remote4 \o <<":", "5000">>,
     <<"[", "::1", "]", ":", "5000">>,
     <<"[", "fe80::1", "]", ":", "5000">>,
     <<"localhost", ":", "5000">>,
     <<"300", ".", "0", ".", "0", ".", "1", ":", "5000">>,
     Loopback4}

ForwardedFor == {<<>>, Loopback4}

AmpRequest(route, method, remoteAddr, xff, authed, body, action, path, readErr, got) ==
    [route |-> route, method |-> method, remoteAddr |-> remoteAddr, xff |-> xff,
     authed |-> authed, body |-> body, action |-> action, path |-> path,
     readErr |-> readErr, got |-> got]

\* POST on a wrapped provider route; :action exists on /v1beta/models/:action only
AliasRequests ==
    UNION {{AmpRequest("alias", "POST", Remote4 \o <<":", "5000">>, <<>>, authed,
                       body, action, <<>>, FALSE, 0),
            AmpRequest("alias", "POST", Remote4 \o <<":", "5000">>, <<>>, authed,
                       body, action, <<>>, TRUE, 0),
            AmpRequest("alias", "POST", Remote4 \o <<":", "5000">>, <<>>, authed,
                       body, action, <<>>, TRUE, 1)} :
        body \in AmpBodies,
        action \in {<<>>, Sonnet \o <<":", "generateContent">>},
        authed \in BOOLEAN}

ModelsRequests ==
    {AmpRequest("models", "GET", Remote4 \o <<":", "5000">>, <<>>, authed,
                Body(FALSE, <<>>), <<>>, <<>>, FALSE, 0) : authed \in BOOLEAN}

BridgePaths ==
    {<<"/publishers/google">>,
     <<"/publishers/google", "/models/", "g", "emini", ":", "stream">>,
     <<"/publishers/google", "/models/", "g", "emini">>,
     <<"/publishers/anthropic", "/models/">> \o ClaudeX \o <<":", "rawPredict">>}

BridgeRequests ==
    {AmpRequest("bridge", method, remoteAddr, <<>>, authed, body, <<>>, path, FALSE, 0) :
        method \in {"POST", "GET"},
        remoteAddr \in {Loopback4 \o <<":", "5000">>, Remote4 \o <<":", "5000">>},
        authed \in BOOLEAN,
        body \in {Body(FALSE, <<>>), Body(TRUE, <<ClaudeX>>)},
        path \in BridgePaths}

ManagementRequests ==
    {AmpRequest("management", method, remoteAddr, xff, FALSE, Body(FALSE, <<>>),
                <<>>, <<>>, FALSE, 0) :
        method \in {"GET", "OPTIONS"}, remoteAddr \in RemoteAddrs, xff \in ForwardedFor}

AmpRequests == AliasRequests \cup ModelsRequests \cup BridgeRequests \cup ManagementRequests

NextAmp ==
    \/ \E cfg \in AmpConfigs, created \in BOOLEAN : Register(cfg, created)
    \/ \E cfg \in AmpConfigs : OnConfigUpdated(cfg)
    \/ \E req \in AmpRequests : ServeRequest(req)

SpecAmp == Init /\ [][NextAmp]_vars

(***************************************************************************)
(* Fallback routing.                                                       *)
(***************************************************************************)
\* the names of the models lists of the claude-api-key entries of a config:
\* every alias and every name, trimmed
ListedNames(getConfig) ==
    IF getConfig = <<>> THEN {}
    ELSE UNION {{TrimSpace(model.Alias), TrimSpace(model.Name)} :
                    model \in UNION {Range(ck.Models) : ck \in Range(getConfig[1].ClaudeKey)}}

\* the model equals, case-insensitive and trimmed, an alias or a name of the list
AliasMatch(getConfig, modelName) ==
    \E n \in ListedNames(getConfig) : n # <<>> /\ EqualFold(n, TrimSpace(modelName))

\* an entry without a models list, with base-url and api-key, takes every model
\* whose name starts with "claude-"
ClaudePrefixRule(getConfig, modelName) ==
    /\ getConfig # <<>>
    /\ \E ck \in Range(getConfig[1].ClaudeKey) :
           /\ Len(ck.Models) = 0
           /\ TrimSpace(ck.BaseURL) # <<>>
           /\ TrimSpace(ck.APIKey) # <<>>
           /\ HasPrefix(ToLower(TrimSpace(modelName)), <<"c", "laude-">>)

InRegistry(modelName) == GetProviderName(NormalizeGeminiThinkingModel(modelName)) # {}

RequestedModel(req) ==
    IF extractModelFromRequest(req) # <<>> THEN extractModelFromRequest(req)
    ELSE IF IndexOf(req.path, "/models/") > 0
    THEN SubSeq(req.path, IndexOf(req.path, "/models/") + 1, Len(req.path))
    ELSE <<>>

\* C30: a request whose model equals, case-insensitive and trimmed, an alias or
\* name of the models list of a claude-api-key entry of the config that Register
\* or the latest OnConfigUpdated set is never forwarded to the upstream proxy: it
\* is handled by the local handler.
C30_NoFallbackForAlias ==
    (/\ served # <<>>
     /\ served[1].req.route \in {"alias", "bridge"}
     /\ served[1].did.status = 0
     /\ AliasMatch(ampCfg, RequestedModel(served[1].req)))
        => served[1].did.invoked = {"handler"}

(***************************************************************************)
(* The localhost restriction and the client authentication of the routes.  *)
(***************************************************************************)
\* the addresses of connections that come from the machine itself
LoopbackAddrs ==
    {Loopback4 \o <<":", "5000">>,
     <<"127", ".", "5", ".", "0", ".", "1", ":", "5000">>,
     <<"[", "::1", "]", ":", "5000">>,
     Loopback4}

C39_AuthBeforeLocalHandler ==
    (/\ served # <<>>
     /\ served[1].req.route \in ProviderRoutes \cup {"bridge"}
     /\ "handler" \in served[1].did.invoked)
        => \E i \in 1..Len(served[1].did.chain) : served[1].did.chain[i] = "auth"

(***************************************************************************)
(* The dispatch loops with the queue as a channel: SetAuthUpdateQueue at   *)
(* any time and more than once, one dispatchLoop goroutine per call, and   *)
(* Stop.  The receiver of a channel is always ready to receive.            *)
(***************************************************************************)
LoopUnchanged ==
    UNCHANGED <<envVars, config, lastAuthHashes, lastConfigHash, currentAuths,
                timerArmed, started, procVars, dispatchVars, seqVars, snapVars,
                debounceVars, execVars, streamVars, convVars, ampVars>>

\* the service installs the channel q
SetAuthUpdateQueueTo(q) ==
    /\ queueSets < MaxQueueSets
    /\ stopPc = "none"
    /\ queueRef' = q
    /\ authQueue' = TRUE
    /\ queueSets' = queueSets + 1
    /\ dispatchCancel' = queueSets + 1
    /\ loop' = [l \in Loops |->
                   IF l = queueSets + 1
                   THEN [pc |-> "next", ctx |-> FALSE, batch |-> <<>>, queue |-> 0]
                   ELSE IF l = dispatchCancel THEN [loop[l] EXCEPT !.ctx = TRUE]
                   ELSE loop[l]]
    /\ UNCHANGED <<pendingUpdates, pendingOrder, stopPc, held, lastSend>>
    /\ LoopUnchanged

\* the batch nextPendingBatch returns, taken out of the pending updates
TakeBatch(l) ==
    /\ loop' = [loop EXCEPT ![l].pc = "queue",
                            ![l].batch = PendingBatch(pendingUpdates, pendingOrder)]
    /\ pendingUpdates' = EmptyMap
    /\ pendingOrder' = <<>>

\* the loop returns
LoopReturn(l) ==
    /\ loop' = [loop EXCEPT ![l].pc = "exit", ![l].batch = <<>>]

\* nextPendingBatch(ctx) up to dispatchCond.Wait()
LoopNext(l) ==
    /\ loop[l].pc = "next"
    /\ IF pendingOrder # <<>> THEN TakeBatch(l)
       ELSE /\ IF loop[l].ctx THEN LoopReturn(l)
               ELSE loop' = [loop EXCEPT ![l].pc = "wait"]
            /\ UNCHANGED <<pendingUpdates, pendingOrder>>
    /\ UNCHANGED <<authQueue, queueRef, dispatchCancel, queueSets, stopPc, held, lastSend>>
    /\ LoopUnchanged

\* nextPendingBatch(ctx) after Signal or Broadcast woke it
LoopWake(l) ==
    /\ loop[l].pc = "wait"
    /\ loop[l].ctx \/ pendingOrder # <<>>
    /\ IF loop[l].ctx
       THEN LoopReturn(l) /\ UNCHANGED <<pendingUpdates, pendingOrder>>
       ELSE TakeBatch(l)
    /\ UNCHANGED <<authQueue, queueRef, dispatchCancel, queueSets, stopPc, held, lastSend>>
    /\ LoopUnchanged

\* queue := w.getAuthQueue(), and what the loop does when it is nil
LoopGetQueue(l) ==
    /\ loop[l].pc = "queue"
    /\ IF queueRef = 0
       THEN IF loop[l].ctx THEN LoopReturn(l)
            ELSE loop' = [loop EXCEPT ![l].pc = "next", ![l].batch = <<>>]
       ELSE loop' = [loop EXCEPT ![l].pc = "send", ![l].queue = queueRef]
    /\ UNCHANGED <<authQueue, queueRef, pendingUpdates, pendingOrder, dispatchCancel,
                   queueSets, stopPc, held, lastSend>>
    /\ LoopUnchanged

\* what the receiver holds once it received the update
Received(view, update) ==
    IF update.Action = "delete" THEN MapRemove(view, update.ID)
    ELSE MapPut(MapRemove(view, update.ID), update.ID, update.Auth[1])

\* select: case queue <- update
LoopSend(l) ==
    /\ loop[l].pc = "send"
    /\ LET update == Head(loop[l].batch)
           q      == loop[l].queue
       IN  /\ held' = [held EXCEPT ![q] = Received(held[q], update)]
           /\ lastSend' = <<[queue |-> q, update |-> update,
                             afterStop |-> stopPc = "returned"]>>
    /\ loop' = [loop EXCEPT ![l].batch = Tail(loop[l].batch),
                            ![l].pc = IF Len(loop[l].batch) = 1 THEN "next" ELSE "send"]
    /\ UNCHANGED <<authQueue, queueRef, pendingUpdates, pendingOrder, dispatchCancel,
                   queueSets, stopPc>>
    /\ LoopUnchanged

\* select: case <-ctx.Done()
LoopCancelled(l) ==
    /\ loop[l].pc = "send"
    /\ loop[l].ctx
    /\ LoopReturn(l)
    /\ UNCHANGED <<authQueue, queueRef, pendingUpdates, pendingOrder, dispatchCancel,
                   queueSets, stopPc, held, lastSend>>
    /\ LoopUnchanged

LoopStep(l) ==
    LoopNext(l) \/ LoopWake(l) \/ LoopGetQueue(l) \/ LoopSend(l) \/ LoopCancelled(l)

\* Stop, stopDispatch: w.dispatchCancel()
StopCancel ==
    /\ started
    /\ stopPc = "none"
    /\ stopPc' = "cancelled"
    /\ loop' = [l \in Loops |-> IF l = dispatchCancel THEN [loop[l] EXCEPT !.ctx = TRUE]
                               ELSE loop[l]]
    /\ dispatchCancel' = 0
    /\ UNCHANGED <<authQueue, queueRef, pendingUpdates, pendingOrder, queueSets,
                   held, lastSend>>
    /\ LoopUnchanged

\* stopDispatch: the pending updates are dropped, under dispatchMu
StopClear ==
    /\ stopPc = "cancelled"
    /\ stopPc' = "cleared"
    /\ pendingUpdates' = EmptyMap
    /\ pendingOrder' = <<>>
    /\ UNCHANGED <<authQueue, queueRef, loop, dispatchCancel, queueSets, held, lastSend>>
    /\ LoopUnchanged

\* stopDispatch: w.authQueue = nil, under clientsMutex; then Stop returns
StopReturn ==
    /\ stopPc = "cleared"
    /\ stopPc' = "returned"
    /\ authQueue' = FALSE
    /\ queueRef' = 0
    /\ UNCHANGED <<pendingUpdates, pendingOrder, loop, dispatchCancel, queueSets,
                   held, lastSend>>
    /\ LoopUnchanged

\* the service has set the configuration and called Start; no queue yet
InitDispatch ==
    /\ configFile = YamlFile(CfgA)
    /\ authDir = [n \in AuthNames |-> JsonFile(MetaA)]
    /\ events = <<>>
    /\ configWrites = 0
    /\ authChanges = MaxDispatchChanges
    /\ clock = 1
    /\ config = <<CfgA>>
    /\ lastAuthHashes = EmptyMap
    /\ lastConfigHash = EmptyStr
    /\ authQueue = FALSE
    /\ currentAuths = <<>>
    /\ pendingUpdates = EmptyMap
    /\ pendingOrder = <<>>
    /\ timerArmed = FALSE
    /\ started = TRUE
    /\ pc = [p \in Procs |-> IF p = "start" THEN "reload" ELSE "idle"]
    /\ auths = [p \in Procs |-> <<>>]
    /\ updates = [p \in Procs |-> <<>>]
    /\ ev = <<>>
    /\ tdata = <<>>
    /\ batch = <<>>
    /\ delivered = EmptyMap
    /\ replaced = FALSE
    /\ prev = [p \in Procs |-> <<>>]
    /\ snapA = <<>>
    /\ snapB = <<>>
    /\ OtherInit

RefreshStep(p) == RefreshSnapshot(p) \/ RefreshPrepare(p) \/ RefreshDispatch(p)

NextDispatch ==
    \/ \E q \in Queues : SetAuthUpdateQueueTo(q)
    \/ StartReload
    \/ \E p \in Procs : RefreshStep(p)
    \/ HandleEvent
    \/ AfterSleep
    \/ \E l \in Loops : LoopNext(l)
    \/ \E l \in Loops : LoopWake(l)
    \/ \E l \in Loops : LoopGetQueue(l)
    \/ \E l \in Loops : LoopSend(l)
    \/ \E l \in Loops : LoopCancelled(l)
    \/ StopCancel
    \/ StopClear
    \/ StopReturn
    \/ \E name \in AuthNames, content \in AuthContents : WriteAuth(name, content)
    \/ \E name \in AuthNames : RemoveAuth(name)

\* every goroutine that can take a step takes one sooner or later
FairDispatch ==
    /\ WF_vars(StartReload)
    /\ \A p \in Procs : WF_vars(RefreshStep(p))
    /\ WF_vars(HandleEvent \/ AfterSleep)
    /\ \A l \in Loops : WF_vars(LoopStep(l))
    /\ WF_vars(StopClear \/ StopReturn)

SpecDispatch == InitDispatch /\ [][NextDispatch]_vars /\ FairDispatch

\* the receiver of the installed channel holds what currentAuths holds
Synced ==
    currentAuths # <<>> => SameMapButTimes(held[queueRef], currentAuths[1])

\* C33: as long as the watcher is not stopped and the consumer keeps receiving,
\* every change a reconciliation commits to currentAuths is eventually delivered
\* to the consumer queue or superseded by a later delivered update for its id,
\* also when the queue is installed after the first reconciliation or replaced
\* while updates are pending or being sent: once the directory stops changing,
\* the consumer of the installed queue comes to hold what currentAuths holds.
C33_NoLostUpdate == <>[](stopPc # "none" \/ queueRef = 0 \/ Synced)

\* C35: after Stop has returned no update is sent to the consumer queue,
\* whatever the dispatch loops and the other goroutines were doing when Stop
\* was called.
C35_QuietAfterStop == lastSend # <<>> => ~lastSend[1].afterStop

==============================================================================
